---- MODULE Spec2Model ----
(***************************************************************************)
(* The ingestion pipeline of hilan-ai-agent: loader.py (JSON files ->      *)
(* embedding -> store rows, with a semaphore gate, batches, retries and a   *)
(* dedup filter), and the two batch orchestrators parse.py and              *)
(* parse_kol_zchut.py (JSON files -> Documents saved to disk).              *)
(*                                                                          *)
(* The programs are asyncio programs: one event loop, tasks that are        *)
(* suspended only at an await.  An action of this module is one stretch of  *)
(* a coroutine between two suspension points, or a smaller piece of it.     *)
(***************************************************************************)
EXTENDS Integers, Sequences, FiniteSets, Bags, TLC

\* ---------------------------------------------------------------- bounds
\* Number of JSON files below the input directory.
NFiles == 4
\* batch_size of the family run (10 in the sources), scaled down.
BatchSize == 3
\* max_concurrent of the loader run (5 by default, 10 from main), scaled down.
MaxConcurrent == 2
\* Number of chunks a kol_zchut source file is split into, at most.
MaxChunks == 2
\* Files, batch size and number of successive loader runs of SpecRuns.
RunFiles == 2
RunBatch == 1
MaxRuns == 2
\* Pieces of a text given to split_text_into_chunks, words of a piece, and
\* the largest chunk size it is called with.
MaxSentences == 2
MaxWords == 2
MaxChunkSize == 5
\* Document: largest page number and longest embedding.
MaxPage == 2
MaxDim == 2

\* ------------------------------------------------------- program constants
\* parse_kol_zchut.main: chunk_size = 5000
chunk_size == 5000
\* process_document(file_path, max_retries: int = 3)
max_retries == 3
\* get_embedding: return [0] * 3072
ZeroVectorLen == 3072

\* ------------------------------------------------------------------ paths
\* A Path below the input directory: the directory it lies in and its stem.
\* Two files of different directories may share a stem.
\* The stem is a base name, with or without a trailing "_<digits>" (num = -1
\* when there is none): 1/a.json, 2/a.json, 1/a_0.json, then 1/b_1.json, ...
PathOf(k) ==
    [parent |-> IF k = 2 THEN 2 ELSE 1,
     stem   |-> [base |-> IF k <= 3 THEN 1 ELSE k - 2,
                 num  |-> IF k <= 2 THEN -1 ELSE IF k = 3 THEN 0 ELSE 1]]

Paths == {PathOf(k) : k \in 1..NFiles}

\* str(file_path): the path as one string, "<parent>/<stem>.json".
Str(p) == <<p.parent, p.stem.base, p.stem.num>>

\* rglob("*.json") over the directory: the files below it, in scan order.
Discovered(n) == [k \in 1..n |-> PathOf(k)]

Range(s) == {s[k] : k \in 1..Len(s)}

Min(a, b) == IF a < b THEN a ELSE b

\* files[i:i + batch_size], with Python's 0-based i.
Slice(files, i, size) == SubSeq(files, i + 1, Min(i + size, Len(files)))

\* --------------------------------------------------------------- embedding
EmbeddingModels == {"text-embedding-3-small", "text-embedding-3-large"}

\* os.getenv("EMBEDDING_MODEL", <default>) with the variable unset.
DefaultModel(program) ==
    IF program = "parse" THEN "text-embedding-3-large" ELSE "text-embedding-3-small"

\* Length of the vector the embedding service returns for a model.
ModelDim(model) == IF model = "text-embedding-3-large" THEN 3072 ELSE 1536

\* A vector of floats, kept as its length and whether all entries are zero.
ServiceVector(model) == [dim |-> ModelDim(model), zero |-> FALSE]

\* [0] * 3072
ZeroVector == [dim |-> ZeroVectorLen, zero |-> TRUE]

NoVector == [dim |-> 0, zero |-> TRUE]

VARIABLES
    orch,              \* which program runs: "loader", "parse", "kol_zchut"
    max_concurrent,    \* process_files_parallel(files, max_concurrent)
    batch_size,        \* batch_size of the orchestrator
    embedding_model,   \* os.getenv("EMBEDDING_MODEL", ...)
    nfiles,            \* number of files below the input directory
    runs,              \* number of successive runs of the program
    run,               \* the current run, 1..runs
    mainpc,            \* where main / process_directory stands
    json_files,        \* the discovered files
    files,             \* the files handed to the batch loop
    i,                 \* the batch loop's index
    semaphore,         \* value of asyncio.Semaphore(max_concurrent)
    pc,                \* per file: where its process_file task stands
    attempt,           \* per file: process_document's loop variable
    doc,               \* per file: embedding of the document being built
    store,             \* the table in the external store: a bag of rows
    log,               \* the lines printed by the current run: [msg, file]
    disk,              \* the files written by Document.save / save_to_markdown
    chunks,            \* per file: len(content_chunks) of its process_file task
    chunk_idx,         \* per file: chunk_idx of its process_file task
    token_counter,     \* the module's TokenCounter
    data,              \* per file: the JSON object its process_file task parsed
    chunker,           \* a call of split_text_into_chunks: its arguments and result
    docobj             \* a Document and the results of the calls of its methods

cfgvars == <<orch, max_concurrent, batch_size, embedding_model, nfiles, runs>>
vars == <<orch, max_concurrent, batch_size, embedding_model, nfiles, runs,
          run, mainpc, json_files, files, i, semaphore, pc, attempt, doc,
          store, log, disk, chunks, chunk_idx, token_counter, data, chunker, docobj>>
diskvars == <<disk, chunks, chunk_idx, token_counter, data, chunker, docobj>>

NoFile == [parent |-> 0, stem |-> [base |-> 0, num |-> -1]]

\* No JSON object parsed yet.
NoData == [read |-> FALSE]

\* No call of split_text_into_chunks.
NoCall == [pc |-> "none"]

\* No Document under study.
NoDocument == [made |-> FALSE]

Line(msg, file) == [msg |-> msg, file |-> file]

\* The batch the loop is at.
Batch == Slice(files, i, batch_size)

\* ------------------------------------------------------------------ store
Row(name, embedding) == [name |-> name, chunk_number |-> 0, embedding |-> embedding]

\* select("name"): the names of the rows of the table.
StoreNames == {r.name : r \in BagToSet(store)}

\* Number of rows of the table with this name.
RowsNamed(name) ==
    LET rows == {r \in BagToSet(store) : r.name = name}
    IN  BagCardinality([r \in rows |-> store[r]])

\* ===================================================================
\* loader.py
\* ===================================================================

\* get_json_files: the directory scan; a missing directory gives [].
GetJsonFiles ==
    /\ orch = "loader"
    /\ mainpc = "main"
    /\ \E exists \in BOOLEAN :
          IF exists
          THEN /\ json_files' = Discovered(nfiles)
               /\ mainpc' = "filter"
               /\ log' = log
          ELSE /\ json_files' = <<>>
               /\ mainpc' = "done"
               /\ log' = log \cup {Line("Directory not found", NoFile),
                                   Line("No JSON files found", NoFile)}
    /\ UNCHANGED <<cfgvars, diskvars, run, files, i, semaphore, pc, attempt, doc, store>>

\* Variant: the Path itself, not its string, is looked up among the names.
UnprocessedComparesPath(all, processed_files) ==
    SelectSeq(all, LAMBDA file : file \notin processed_files)

\* Variant: a file whose rows all carry the zero vector is selected again.
UnprocessedRedoesZeroVectors(all, processed_files) ==
    SelectSeq(all, LAMBDA file :
                      \A r \in BagToSet(store) : r.name = Str(file) => r.embedding.zero)

\* [file for file in files if str(file) not in processed_files]
Unprocessed(all, processed_files) ==
    SelectSeq(all, LAMBDA file : Str(file) \notin processed_files)

\* Variant: a failed query gives no file to process.
GetUnprocessedFilesFailClosed ==
    /\ orch = "loader"
    /\ mainpc = "filter"
    /\ \E query_ok \in BOOLEAN :
          LET unprocessed_files ==
                  IF query_ok THEN Unprocessed(json_files, StoreNames)
                              ELSE <<>>
              lines == IF query_ok THEN {}
                       ELSE {Line("Error checking processed files", NoFile)}
          IN  /\ files' = unprocessed_files
              /\ IF unprocessed_files = <<>>
                 THEN /\ mainpc' = "done"
                      /\ log' = log \cup lines \cup
                                {Line("All files have already been processed", NoFile)}
                      /\ UNCHANGED <<i, semaphore>>
                 ELSE /\ mainpc' = "batch"
                      /\ i' = 0
                      /\ semaphore' = max_concurrent
                      /\ log' = log \cup lines
    /\ UNCHANGED <<cfgvars, diskvars, run, json_files, pc, attempt, doc, store>>

\* get_unprocessed_files, then main's test of its result and the first lines
\* of process_files_parallel.  The store query succeeds or raises.
GetUnprocessedFiles ==
    /\ orch = "loader"
    /\ mainpc = "filter"
    /\ \E query_ok \in BOOLEAN :
          LET unprocessed_files ==
                  IF query_ok THEN Unprocessed(json_files, StoreNames)
                              ELSE json_files
              lines == IF query_ok THEN {}
                       ELSE {Line("Error checking processed files", NoFile)}
          IN  /\ files' = unprocessed_files
              /\ IF unprocessed_files = <<>>
                 THEN /\ mainpc' = "done"
                      /\ log' = log \cup lines \cup
                                {Line("All files have already been processed", NoFile)}
                      /\ UNCHANGED <<i, semaphore>>
                 ELSE /\ mainpc' = "batch"
                      /\ i' = 0
                      /\ semaphore' = max_concurrent
                      /\ log' = log \cup lines
    /\ UNCHANGED <<cfgvars, diskvars, run, json_files, pc, attempt, doc, store>>

\* One turn of "for i in range(0, len(files), batch_size)": the tasks of the
\* batch are created by gather, or the loop ends.
StartBatch ==
    /\ orch = "loader"
    /\ mainpc = "batch"
    /\ IF i < Len(files)
       THEN /\ pc' = [p \in Paths |-> IF p \in Range(Batch) THEN "acquire" ELSE pc[p]]
            /\ mainpc' = "gather"
       ELSE /\ mainpc' = "done"
            /\ pc' = pc
    /\ UNCHANGED <<cfgvars, diskvars, run, json_files, files, i, semaphore, attempt, doc,
                   store, log>>

\* Variant: the item enters without waiting for a free slot.
AcquireNoGate(p) ==
    /\ orch = "loader"
    /\ pc[p] = "acquire"
    /\ semaphore' = IF semaphore > 0 THEN semaphore - 1 ELSE 0
    /\ pc' = [pc EXCEPT ![p] = "read"]
    /\ attempt' = [attempt EXCEPT ![p] = 0]
    /\ log' = log \cup {Line("Processing file", p)}
    /\ UNCHANGED <<cfgvars, diskvars, run, mainpc, json_files, files, i, doc, store>>

\* async with semaphore: an item enters when a slot is free.
Acquire(p) ==
    /\ orch = "loader"
    /\ pc[p] = "acquire"
    /\ semaphore > 0
    /\ semaphore' = semaphore - 1
    /\ pc' = [pc EXCEPT ![p] = "read"]
    /\ attempt' = [attempt EXCEPT ![p] = 0]
    /\ log' = log \cup {Line("Processing file", p)}
    /\ UNCHANGED <<cfgvars, diskvars, run, mainpc, json_files, files, i, doc, store>>

\* Variant: the last attempt is recognised one turn too late.
ReadParseOffByOne(p) ==
    /\ orch = "loader"
    /\ pc[p] = "read"
    /\ \E read_ok \in BOOLEAN :
          IF read_ok
          THEN /\ pc' = [pc EXCEPT ![p] = "embed"]
               /\ UNCHANGED <<semaphore, log>>
          ELSE IF attempt[p] = max_retries
          THEN /\ pc' = [pc EXCEPT ![p] = "done"]
               /\ semaphore' = semaphore + 1
               /\ log' = log \cup {Line("Failed to process document", p),
                                   Line("Error processing", p)}
          ELSE /\ pc' = [pc EXCEPT ![p] = "retry_sleep"]
               /\ UNCHANGED <<semaphore, log>>
    /\ UNCHANGED <<cfgvars, diskvars, run, mainpc, json_files, files, i, attempt, doc,
                   store>>

\* Variant: process_file does not catch the failure of the last attempt; it
\* ends gather and the batch loop, and the tasks still running are cancelled
\* when the event loop shuts down.
ReadParsePropagates(p) ==
    /\ orch = "loader"
    /\ pc[p] = "read"
    /\ \E read_ok \in BOOLEAN :
          IF read_ok
          THEN /\ pc' = [pc EXCEPT ![p] = "embed"]
               /\ UNCHANGED <<semaphore, log, mainpc>>
          ELSE IF attempt[p] = max_retries - 1
          THEN /\ pc' = [q \in Paths |->
                            IF q = p THEN "done"
                            ELSE IF pc[q] \in {"none", "done", "finished"} THEN pc[q]
                            ELSE "cancelled"]
               /\ semaphore' = semaphore + 1
               /\ mainpc' = "done"
               /\ log' = log \cup {Line("Failed to process document", p),
                                   Line("Error in parallel processing", NoFile)}
          ELSE /\ pc' = [pc EXCEPT ![p] = "retry_sleep"]
               /\ UNCHANGED <<semaphore, log, mainpc>>
    /\ UNCHANGED <<cfgvars, diskvars, run, json_files, files, i, attempt, doc, store>>

\* Variant: an item that is given up keeps its slot of the gate.
ReadParseKeepsSlot(p) ==
    /\ orch = "loader"
    /\ pc[p] = "read"
    /\ \E read_ok \in BOOLEAN :
          IF read_ok
          THEN /\ pc' = [pc EXCEPT ![p] = "embed"]
               /\ UNCHANGED <<semaphore, log>>
          ELSE IF attempt[p] = max_retries - 1
          THEN /\ pc' = [pc EXCEPT ![p] = "done"]
               /\ semaphore' = semaphore
               /\ log' = log \cup {Line("Failed to process document", p),
                                   Line("Error processing", p)}
          ELSE /\ pc' = [pc EXCEPT ![p] = "retry_sleep"]
               /\ UNCHANGED <<semaphore, log>>
    /\ UNCHANGED <<cfgvars, diskvars, run, mainpc, json_files, files, i, attempt, doc, store>>

\* process_document, one attempt up to the embedding call: open, json.load
\* and the extraction of the fields.  A failure of the last attempt is raised
\* to process_file, which leaves the gated section and logs it.
ReadParse(p) ==
    /\ orch = "loader"
    /\ pc[p] = "read"
    /\ \E read_ok \in BOOLEAN :
          IF read_ok
          THEN /\ pc' = [pc EXCEPT ![p] = "embed"]
               /\ UNCHANGED <<semaphore, log>>
          ELSE IF attempt[p] = max_retries - 1
          THEN /\ pc' = [pc EXCEPT ![p] = "done"]
               /\ semaphore' = semaphore + 1
               /\ log' = log \cup {Line("Failed to process document", p),
                                   Line("Error processing", p)}
          ELSE /\ pc' = [pc EXCEPT ![p] = "retry_sleep"]
               /\ UNCHANGED <<semaphore, log>>
    /\ UNCHANGED <<cfgvars, diskvars, run, mainpc, json_files, files, i, attempt, doc, store>>

\* await asyncio.sleep(1) returns: the next turn of the retry loop.
RetrySleepReturn(p) ==
    /\ orch = "loader"
    /\ pc[p] = "retry_sleep"
    /\ attempt' = [attempt EXCEPT ![p] = attempt[p] + 1]
    /\ pc' = [pc EXCEPT ![p] = "read"]
    /\ UNCHANGED <<cfgvars, diskvars, run, mainpc, json_files, files, i, semaphore, doc,
                   store, log>>

\* Variant: a failed embedding call is raised into the retry loop.
GetEmbeddingRaises(p) ==
    /\ orch = "loader"
    /\ pc[p] = "embed"
    /\ \E embed_ok \in BOOLEAN :
          IF embed_ok
          THEN /\ doc' = [doc EXCEPT ![p] = ServiceVector(embedding_model)]
               /\ pc' = [pc EXCEPT ![p] = "insert"]
               /\ UNCHANGED <<semaphore, log>>
          ELSE IF attempt[p] = max_retries - 1
          THEN /\ doc' = doc
               /\ pc' = [pc EXCEPT ![p] = "done"]
               /\ semaphore' = semaphore + 1
               /\ log' = log \cup {Line("Error getting embedding", p),
                                   Line("Failed to process document", p),
                                   Line("Error processing", p)}
          ELSE /\ doc' = doc
               /\ pc' = [pc EXCEPT ![p] = "retry_sleep"]
               /\ semaphore' = semaphore
               /\ log' = log \cup {Line("Error getting embedding", p)}
    /\ UNCHANGED <<cfgvars, diskvars, run, mainpc, json_files, files, i, attempt, store>>

\* get_embedding: the service's vector, or the zero vector when the call fails.
GetEmbedding(p) ==
    /\ orch = "loader"
    /\ pc[p] = "embed"
    /\ \E embed_ok \in BOOLEAN :
          IF embed_ok
          THEN /\ doc' = [doc EXCEPT ![p] = ServiceVector(embedding_model)]
               /\ log' = log
          ELSE /\ doc' = [doc EXCEPT ![p] = ZeroVector]
               /\ log' = log \cup {Line("Error getting embedding", p)}
    /\ pc' = [pc EXCEPT ![p] = "insert"]
    /\ UNCHANGED <<cfgvars, diskvars, run, mainpc, json_files, files, i, semaphore, attempt,
                   store>>

\* Variant: the row is named by the file's name, without its directory.
InsertDocumentFileName(p) ==
    /\ orch = "loader"
    /\ pc[p] = "insert"
    /\ \E insert_ok \in BOOLEAN :
          IF insert_ok
          THEN /\ store' = store (+) SetToBag({Row(<<p.stem.base, p.stem.num>>, doc[p])})
               /\ log' = log \cup {Line("Inserted document", p)}
          ELSE /\ store' = store
               /\ log' = log \cup {Line("Error inserting document", p)}
    /\ pc' = [pc EXCEPT ![p] = "done"]
    /\ semaphore' = semaphore + 1
    /\ UNCHANGED <<cfgvars, diskvars, run, mainpc, json_files, files, i, attempt, doc>>

\* Variant: the insert lies inside the retry loop, and a failure after the
\* row was written starts the next attempt.
InsertDocumentInsideRetry(p) ==
    /\ orch = "loader"
    /\ pc[p] = "insert"
    /\ \E insert_ok \in BOOLEAN :
          IF insert_ok
          THEN /\ store' = store (+) SetToBag({Row(Str(p), doc[p])})
               /\ log' = log \cup {Line("Inserted document", p)}
               /\ pc' = [pc EXCEPT ![p] = "done"]
               /\ semaphore' = semaphore + 1
          ELSE /\ store' = store (+) SetToBag({Row(Str(p), doc[p])})
               /\ log' = log
               /\ IF attempt[p] = max_retries - 1
                  THEN /\ pc' = [pc EXCEPT ![p] = "done"]
                       /\ semaphore' = semaphore + 1
                  ELSE /\ pc' = [pc EXCEPT ![p] = "retry_sleep"]
                       /\ semaphore' = semaphore
    /\ UNCHANGED <<cfgvars, diskvars, run, mainpc, json_files, files, i, attempt, doc>>

\* Variant: a failed insert raises out of insert_document.
InsertDocumentRaises(p) ==
    /\ orch = "loader"
    /\ pc[p] = "insert"
    /\ \E insert_ok \in BOOLEAN :
          IF insert_ok
          THEN /\ store' = store (+) SetToBag({Row(Str(p), doc[p])})
               /\ log' = log \cup {Line("Inserted document", p)}
          ELSE /\ store' = store
               /\ log' = log \cup {Line("Error processing", p)}
    /\ pc' = [pc EXCEPT ![p] = "done"]
    /\ semaphore' = semaphore + 1
    /\ UNCHANGED <<cfgvars, diskvars, run, mainpc, json_files, files, i, attempt, doc>>

\* insert_document and the end of process_file: one row is inserted, or the
\* failure is logged; the item leaves the gated section.
InsertDocument(p) ==
    /\ orch = "loader"
    /\ pc[p] = "insert"
    /\ \E insert_ok \in BOOLEAN :
          IF insert_ok
          THEN /\ store' = store (+) SetToBag({Row(Str(p), doc[p])})
               /\ log' = log \cup {Line("Inserted document", p)}
          ELSE /\ store' = store
               /\ log' = log \cup {Line("Error inserting document", p)}
    /\ pc' = [pc EXCEPT ![p] = "done"]
    /\ semaphore' = semaphore + 1
    /\ UNCHANGED <<cfgvars, diskvars, run, mainpc, json_files, files, i, attempt, doc>>

\* Variant: the wait ends with the first finished task of the batch.
GatherReturnFirstCompleted ==
    /\ orch = "loader"
    /\ mainpc = "gather"
    /\ \E p \in Range(Batch) : pc[p] = "done"
    /\ mainpc' = "sleep"
    /\ pc' = [p \in Paths |-> IF p \in Range(Batch) /\ pc[p] = "done"
                              THEN "finished" ELSE pc[p]]
    /\ UNCHANGED <<cfgvars, diskvars, run, json_files, files, i, semaphore, attempt,
                   doc, store, log>>

\* asyncio.gather returns when every task of the batch has finished; the
\* finished tasks are dropped.
GatherReturn ==
    /\ orch = "loader"
    /\ mainpc = "gather"
    /\ \A p \in Range(Batch) : pc[p] = "done"
    /\ mainpc' = "sleep"
    /\ pc' = [p \in Paths |-> IF p \in Range(Batch) THEN "finished" ELSE pc[p]]
    /\ attempt' = [p \in Paths |-> IF p \in Range(Batch) THEN 0 ELSE attempt[p]]
    /\ doc' = [p \in Paths |-> IF p \in Range(Batch) THEN NoVector ELSE doc[p]]
    /\ UNCHANGED <<cfgvars, diskvars, run, json_files, files, i, semaphore, store, log>>

\* await asyncio.sleep(1) between two batches returns.
SleepReturn ==
    /\ orch = "loader"
    /\ mainpc = "sleep"
    /\ i' = i + batch_size
    /\ mainpc' = "batch"
    /\ UNCHANGED <<cfgvars, diskvars, run, json_files, files, semaphore, pc, attempt, doc,
                   store, log>>

\* The program is started again (a new process): nothing but the store is
\* left of the run before.
NextRun ==
    /\ mainpc = "done"
    /\ run < runs
    /\ run' = run + 1
    /\ mainpc' = "main"
    /\ json_files' = <<>>
    /\ files' = <<>>
    /\ i' = 0
    /\ semaphore' = 0
    /\ pc' = [p \in Paths |-> "none"]
    /\ attempt' = [p \in Paths |-> 0]
    /\ doc' = [p \in Paths |-> NoVector]
    /\ log' = {}
    /\ UNCHANGED <<cfgvars, diskvars, store>>

InitRun ==
    /\ run = 1
    /\ mainpc = "main"
    /\ json_files = <<>>
    /\ files = <<>>
    /\ i = 0
    /\ semaphore = 0
    /\ pc = [p \in Paths |-> "none"]
    /\ attempt = [p \in Paths |-> 0]
    /\ doc = [p \in Paths |-> NoVector]
    /\ store = EmptyBag
    /\ log = {}
    /\ disk = {}
    /\ chunks = [p \in Paths |-> 0]
    /\ chunk_idx = [p \in Paths |-> 0]
    /\ token_counter = [total_tokens |-> 0, total_files |-> 0]
    /\ data = [p \in Paths |-> NoData]
    /\ chunker = NoCall
    /\ docobj = NoDocument

\* One run of loader.py over NFiles files.
Init ==
    /\ orch = "loader"
    /\ max_concurrent = MaxConcurrent
    /\ batch_size = BatchSize
    /\ embedding_model = DefaultModel("loader")
    /\ nfiles = NFiles
    /\ runs = 1
    /\ InitRun

NextLoader ==
    \/ GetJsonFiles
    \/ GetUnprocessedFiles
    \/ StartBatch
    \/ \E p \in Paths : Acquire(p)
    \/ \E p \in Paths : ReadParse(p)
    \/ \E p \in Paths : RetrySleepReturn(p)
    \/ \E p \in Paths : GetEmbedding(p)
    \/ \E p \in Paths : InsertDocument(p)
    \/ GatherReturn
    \/ SleepReturn

Next == NextLoader

Spec == Init /\ [][Next]_vars

\* One run of loader.py with a gate of one slot.  The event loop runs a task
\* that can go on, and every external call in flight returns or fails: as
\* long as a step can be taken, one is taken.
InitLive ==
    /\ orch = "loader"
    /\ max_concurrent = 1
    /\ batch_size = RunBatch + 1
    /\ embedding_model = DefaultModel("loader")
    /\ nfiles = RunFiles + 1
    /\ runs = 1
    /\ InitRun

SpecLive == InitLive /\ [][Next]_vars /\ WF_vars(Next)

\* Successive runs of loader.py over the same directory and store, one item
\* at a time, under either setting of EMBEDDING_MODEL.
InitRuns ==
    /\ orch = "loader"
    /\ max_concurrent = 1
    /\ batch_size = RunBatch
    /\ embedding_model \in EmbeddingModels
    /\ nfiles = RunFiles
    /\ runs = MaxRuns
    /\ InitRun

NextRuns == NextLoader \/ NextRun

SpecRuns == InitRuns /\ [][NextRuns]_vars

\* ===================================================================
\* document.py, as far as the orchestrators use it
\* ===================================================================

\* open(path, 'w'): the file is created or overwritten.
WriteFile(d, path, content) ==
    {f \in d : f.path # path} \cup {[path |-> path, content |-> content]}

\* Document.save: {file_name}_{page}.json holds every field.
Save(d, document) ==
    WriteFile(d, <<document.file_name, document.page, "json">>, document)

\* Document.save_to_markdown: {file_name}_{page}.md holds the rendering, in
\* which a vector of floats is only "Vector with N dimensions".
SaveToMarkdown(d, document) ==
    WriteFile(d, <<document.file_name, document.page, "md">>,
              [document EXCEPT !.embedding = <<"Vector with", document.embedding.dim,
                                               "dimensions">>])

\* ===================================================================
\* parse.py
\* ===================================================================

\* extract_file_info: (.+)_(\d+)$ on the stem, page 0 without a match.
\* A name is the sequence of its parts: "a" is <<a>>, "a_0" is <<a, 0>>.
ExtractFileInfo(p) ==
    IF p.stem.num >= 0 THEN <<(<<p.stem.base>>), p.stem.num>>
                       ELSE <<(<<p.stem.base>>), 0>>

\* process_directory up to the batch loop: the scan of the input directory.
ParseProcessDirectory ==
    /\ orch = "parse"
    /\ mainpc = "main"
    /\ \E exists \in BOOLEAN :
          IF exists
          THEN /\ json_files' = Discovered(nfiles)
               /\ mainpc' = "batch"
               /\ log' = log
          ELSE /\ json_files' = <<>>
               /\ mainpc' = "done"
               /\ log' = log \cup {Line("No JSON files found", NoFile)}
    /\ files' = json_files'
    /\ i' = 0
    /\ UNCHANGED <<cfgvars, diskvars, run, semaphore, pc, attempt, doc, store>>

\* One turn of "for i in range(0, len(json_files), batch_size)".
ParseStartBatch ==
    /\ orch = "parse"
    /\ mainpc = "batch"
    /\ IF i < Len(files)
       THEN /\ pc' = [p \in Paths |-> IF p \in Range(Batch) THEN "start" ELSE pc[p]]
            /\ mainpc' = "gather"
       ELSE /\ mainpc' = "done"
            /\ pc' = pc
    /\ UNCHANGED <<cfgvars, diskvars, run, json_files, files, i, semaphore, attempt,
                   doc, store, log>>

\* The JSON objects parse.py may find in a file: a text and a list of
\* entities, empty or with the text of its first entity.
ParseInputs ==
    {[text |-> "text", entities |-> entities] : entities \in {<<>>, <<"english_text">>}}

\* process_file up to its first external call: the file is read and parsed;
\* the text of the first entity, if any, goes to the translation.
ParseReadFile(p) ==
    /\ orch = "parse"
    /\ pc[p] = "start"
    /\ \/ /\ pc' = [pc EXCEPT ![p] = "done"]
          /\ log' = log \cup {Line("Error processing", p)}
          /\ UNCHANGED <<doc, data>>
       \/ \E json \in ParseInputs :
             LET info == ExtractFileInfo(p)
                 document == [file_name |-> info[1], page |-> info[2],
                              summary |-> "None", content |-> json.text,
                              metadata |-> <<>>, embedding |-> NoVector]
             IN  /\ data' = [data EXCEPT ![p] = json]
                 /\ doc' = [doc EXCEPT ![p] = document]
                 /\ IF json.entities # <<>>
                    THEN /\ pc' = [pc EXCEPT ![p] = "translate"]
                         /\ log' = log
                    ELSE /\ pc' = [pc EXCEPT ![p] = "embed"]
                         /\ log' = log \cup {Line("No text to translate", p)}
    /\ UNCHANGED <<cfgvars, disk, chunks, chunk_idx, token_counter, chunker, docobj, run, mainpc,
                   json_files, files, i, semaphore, attempt, store>>

\* Variant: a failed translation falls back to the untranslated text.
ParseTranslateTextFallback(p) ==
    /\ orch = "parse"
    /\ pc[p] = "translate"
    /\ \E translate_ok \in BOOLEAN :
          IF translate_ok
          THEN /\ doc' = [doc EXCEPT ![p].summary = "hebrew_translation"]
               /\ pc' = [pc EXCEPT ![p] = "embed"]
               /\ log' = log
          ELSE /\ doc' = [doc EXCEPT ![p].summary = "english_text"]
               /\ pc' = [pc EXCEPT ![p] = "embed"]
               /\ log' = log \cup {Line("Translation error", p)}
    /\ UNCHANGED <<cfgvars, diskvars, run, mainpc, json_files, files, i, semaphore,
                   attempt, store>>

\* translate_text returns or raises; a failure ends process_file.
ParseTranslateText(p) ==
    /\ orch = "parse"
    /\ pc[p] = "translate"
    /\ \E translate_ok \in BOOLEAN :
          IF translate_ok
          THEN /\ doc' = [doc EXCEPT ![p].summary = "hebrew_translation"]
               /\ pc' = [pc EXCEPT ![p] = "embed"]
               /\ log' = log
          ELSE /\ doc' = doc
               /\ pc' = [pc EXCEPT ![p] = "done"]
               /\ log' = log \cup {Line("Translation error", p),
                                   Line("Error processing", p)}
    /\ UNCHANGED <<cfgvars, diskvars, run, mainpc, json_files, files, i, semaphore,
                   attempt, store>>

\* Variant: the Document is saved before its embedding is there.
ParseGetEmbeddingSavesFirst(p) ==
    /\ orch = "parse"
    /\ pc[p] = "embed"
    /\ \E embed_ok \in BOOLEAN :
          IF embed_ok
          THEN LET document == [doc[p] EXCEPT !.embedding = ServiceVector(embedding_model)]
               IN  /\ doc' = [doc EXCEPT ![p] = document]
                   /\ disk' = SaveToMarkdown(Save(disk, document), document)
                   /\ log' = log \cup {Line("Successfully processed", p)}
          ELSE /\ doc' = doc
               /\ disk' = SaveToMarkdown(Save(disk, doc[p]), doc[p])
               /\ log' = log \cup {Line("Embedding error", p),
                                   Line("Error processing", p)}
    /\ pc' = [pc EXCEPT ![p] = "done"]
    /\ UNCHANGED <<cfgvars, chunks, chunk_idx, token_counter, data, chunker, docobj, run, mainpc, json_files,
                   files, i, semaphore, attempt, store>>

\* get_embedding returns or raises; with the vector the Document is saved as
\* JSON and as markdown.
ParseGetEmbedding(p) ==
    /\ orch = "parse"
    /\ pc[p] = "embed"
    /\ \E embed_ok \in BOOLEAN :
          IF embed_ok
          THEN LET document == [doc[p] EXCEPT !.embedding = ServiceVector(embedding_model)]
               IN  /\ doc' = [doc EXCEPT ![p] = document]
                   /\ disk' = SaveToMarkdown(Save(disk, document), document)
                   /\ log' = log \cup {Line("Successfully processed", p)}
          ELSE /\ doc' = doc
               /\ disk' = disk
               /\ log' = log \cup {Line("Embedding error", p),
                                   Line("Error processing", p)}
    /\ pc' = [pc EXCEPT ![p] = "done"]
    /\ UNCHANGED <<cfgvars, chunks, chunk_idx, token_counter, data, chunker, docobj, run, mainpc, json_files,
                   files, i, semaphore, attempt, store>>

\* asyncio.gather returns when every task of the batch has finished; the loop
\* goes on with the next batch at once.
ParseGatherReturn ==
    /\ orch = "parse"
    /\ mainpc = "gather"
    /\ \A p \in Range(Batch) : pc[p] = "done"
    /\ pc' = [p \in Paths |-> IF p \in Range(Batch) THEN "finished" ELSE pc[p]]
    /\ doc' = [p \in Paths |-> IF p \in Range(Batch) THEN NoVector ELSE doc[p]]
    /\ data' = [p \in Paths |-> IF p \in Range(Batch) THEN NoData ELSE data[p]]
    /\ i' = i + batch_size
    /\ mainpc' = "batch"
    /\ UNCHANGED <<cfgvars, disk, chunks, chunk_idx, token_counter, chunker, docobj, run,
                   json_files, files, semaphore, attempt, store, log>>

NextParse ==
    \/ ParseProcessDirectory
    \/ ParseStartBatch
    \/ \E p \in Paths : ParseReadFile(p)
    \/ \E p \in Paths : ParseTranslateText(p)
    \/ \E p \in Paths : ParseGetEmbedding(p)
    \/ ParseGatherReturn

\* ===================================================================
\* parse_kol_zchut.py
\* ===================================================================

\* Path(data['file_name']).stem: the name the JSON itself carries.
BaseFilename(p) ==
    IF p.stem.num >= 0 THEN <<p.stem.base, p.stem.num>> ELSE <<p.stem.base>>

\* content_chunks of a text that split_text_into_chunks cuts into n chunks,
\* each chunk kept as its token count; [''] when there is none.
ContentChunks(n) == IF n = 0 THEN <<0>> ELSE [k \in 1..n |-> k]

\* add_tokens that writes what it computed from the counter as it was when
\* the program started: the updates made since are lost.
AddTokensFromStaleRead(counter, tokens) ==
    [total_tokens |-> tokens, total_files |-> 1]

\* TokenCounter.add_tokens
AddTokens(counter, tokens) ==
    [total_tokens |-> counter.total_tokens + tokens,
     total_files  |-> counter.total_files + 1]

\* The Document of one chunk with total_chunks counting the chunks up to it.
ChunkDocumentCountsSoFar(p, content_chunks, idx) ==
    [file_name |-> <<BaseFilename(p), "chunk", idx>>,
     page      |-> idx,
     summary   |-> "",
     content   |-> content_chunks[idx],
     metadata  |-> [original_filename |-> BaseFilename(p),
                    total_chunks |-> idx,
                    chunk_size |-> chunk_size,
                    tokens |-> content_chunks[idx]],
     embedding |-> NoVector]

\* The Document of one chunk, before its embedding.
ChunkDocument(p, content_chunks, idx) ==
    [file_name |-> <<BaseFilename(p), "chunk", idx>>,
     page      |-> idx,
     summary   |-> "",
     content   |-> content_chunks[idx],
     metadata  |-> [original_filename |-> BaseFilename(p),
                    total_chunks |-> Len(content_chunks),
                    chunk_size |-> chunk_size,
                    tokens |-> content_chunks[idx]],
     embedding |-> NoVector]

KolProcessDirectory ==
    /\ orch = "kol_zchut"
    /\ mainpc = "main"
    /\ \E exists \in BOOLEAN :
          IF exists
          THEN /\ json_files' = Discovered(nfiles)
               /\ mainpc' = "batch"
               /\ log' = log
          ELSE /\ json_files' = <<>>
               /\ mainpc' = "done"
               /\ log' = log \cup {Line("No JSON files found", NoFile)}
    /\ files' = json_files'
    /\ i' = 0
    /\ UNCHANGED <<cfgvars, diskvars, run, semaphore, pc, attempt, doc, store>>

\* One turn of the batch loop; after the last batch the statistics follow.
KolStartBatch ==
    /\ orch = "kol_zchut"
    /\ mainpc = "batch"
    /\ IF i < Len(files)
       THEN /\ pc' = [p \in Paths |-> IF p \in Range(Batch) THEN "start" ELSE pc[p]]
            /\ mainpc' = "gather"
       ELSE /\ mainpc' = "stats"
            /\ pc' = pc
    /\ UNCHANGED <<cfgvars, diskvars, run, json_files, files, i, semaphore, attempt,
                   doc, store, log>>

\* The JSON objects parse_kol_zchut.py may find in a file: one with the
\* fields it reads (file_name, content, the content kept as the number of
\* chunks it splits into), or one that has a text and entities only.
KolInputs(p) ==
    {[file_name |-> BaseFilename(p), content |-> n] : n \in 0..MaxChunks}
        \cup {[text |-> "text", entities |-> <<>>]}

\* process_file up to its first external call: the file is read and parsed,
\* data.get('content', '') is split, and the Document of chunk 1 is built,
\* for which data['file_name'] raises KeyError when the field is missing.
KolReadFile(p) ==
    /\ orch = "kol_zchut"
    /\ pc[p] = "start"
    /\ \/ /\ pc' = [pc EXCEPT ![p] = "done"]
          /\ log' = log \cup {Line("Error processing", p)}
          /\ UNCHANGED <<chunks, chunk_idx, doc, data>>
       \/ \E json \in KolInputs(p) :
             LET content_chunks ==
                     ContentChunks(IF "content" \in DOMAIN json THEN json.content ELSE 0)
             IN  /\ data' = [data EXCEPT ![p] = json]
                 /\ chunks' = [chunks EXCEPT ![p] = content_chunks]
                 /\ chunk_idx' = [chunk_idx EXCEPT ![p] = 1]
                 /\ IF "file_name" \in DOMAIN json
                    THEN /\ doc' = [doc EXCEPT ![p] = ChunkDocument(p, content_chunks, 1)]
                         /\ pc' = [pc EXCEPT ![p] = "embed"]
                         /\ log' = log
                    ELSE /\ doc' = doc
                         /\ pc' = [pc EXCEPT ![p] = "done"]
                         /\ log' = log \cup {Line("Error processing", p)}
    /\ UNCHANGED <<cfgvars, disk, token_counter, chunker, docobj, run, mainpc, json_files, files, i,
                   semaphore, attempt, store>>

\* get_embedding of the current chunk returns or raises.  With the vector the
\* tokens are counted, the Document is saved, and the loop goes to the next
\* chunk; a failure ends process_file.
KolEmbedChunk(p) ==
    /\ orch = "kol_zchut"
    /\ pc[p] = "embed"
    /\ \E embed_ok \in BOOLEAN :
          IF ~embed_ok
          THEN /\ pc' = [pc EXCEPT ![p] = "done"]
               /\ log' = log \cup {Line("Embedding error", p),
                                   Line("Error processing", p)}
               /\ UNCHANGED <<disk, token_counter, chunk_idx, doc>>
          ELSE LET document == [doc[p] EXCEPT !.embedding = ServiceVector(embedding_model)]
               IN  /\ token_counter' = AddTokens(token_counter, chunks[p][chunk_idx[p]])
                   /\ disk' = SaveToMarkdown(Save(disk, document), document)
                   /\ IF chunk_idx[p] < Len(chunks[p])
                      THEN /\ chunk_idx' = [chunk_idx EXCEPT ![p] = chunk_idx[p] + 1]
                           /\ doc' = [doc EXCEPT
                                        ![p] = ChunkDocument(p, chunks[p], chunk_idx[p] + 1)]
                           /\ pc' = pc
                           /\ log' = log
                      ELSE /\ chunk_idx' = chunk_idx
                           /\ doc' = [doc EXCEPT ![p] = document]
                           /\ pc' = [pc EXCEPT ![p] = "done"]
                           /\ log' = log \cup {Line("Successfully processed", p)}
    /\ UNCHANGED <<cfgvars, chunks, data, chunker, docobj, run, mainpc, json_files, files, i, semaphore,
                   attempt, store>>

KolGatherReturn ==
    /\ orch = "kol_zchut"
    /\ mainpc = "gather"
    /\ \A p \in Range(Batch) : pc[p] = "done"
    /\ pc' = [p \in Paths |-> IF p \in Range(Batch) THEN "finished" ELSE pc[p]]
    /\ doc' = [p \in Paths |-> IF p \in Range(Batch) THEN NoVector ELSE doc[p]]
    /\ chunks' = [p \in Paths |-> IF p \in Range(Batch) THEN 0 ELSE chunks[p]]
    /\ chunk_idx' = [p \in Paths |-> IF p \in Range(Batch) THEN 0 ELSE chunk_idx[p]]
    /\ data' = [p \in Paths |-> IF p \in Range(Batch) THEN NoData ELSE data[p]]
    /\ i' = i + batch_size
    /\ mainpc' = "batch"
    /\ UNCHANGED <<cfgvars, disk, token_counter, chunker, docobj, run, json_files, files, semaphore,
                   attempt, store, log>>

\* The final statistics: total_tokens / total_files raises ZeroDivisionError
\* when no chunk was counted.
KolFinalStatistics ==
    /\ orch = "kol_zchut"
    /\ mainpc = "stats"
    /\ IF token_counter.total_files = 0
       THEN /\ mainpc' = "crashed"
            /\ log' = log \cup {Line("Total files processed", NoFile),
                                Line("Total tokens", NoFile)}
       ELSE /\ mainpc' = "done"
            /\ log' = log \cup {Line("Total files processed", NoFile),
                                Line("Total tokens", NoFile),
                                Line("Average tokens per chunk", NoFile)}
    /\ UNCHANGED <<cfgvars, diskvars, run, json_files, files, i, semaphore, pc,
                   attempt, doc, store>>

NextKol ==
    \/ KolProcessDirectory
    \/ KolStartBatch
    \/ \E p \in Paths : KolReadFile(p)
    \/ \E p \in Paths : KolEmbedChunk(p)
    \/ KolGatherReturn
    \/ KolFinalStatistics

\* One run of any of the three orchestrators, each with its default model;
\* the gate of the loader has one slot (parse.py and parse_kol_zchut.py have
\* no gate).
InitFamily ==
    /\ orch \in {"loader", "parse", "kol_zchut"}
    /\ max_concurrent = 1
    /\ batch_size = BatchSize
    /\ embedding_model = DefaultModel(orch)
    /\ nfiles = NFiles
    /\ runs = 1
    /\ InitRun

NextFamily == NextLoader \/ NextParse \/ NextKol

SpecFamily == InitFamily /\ [][NextFamily]_vars


\* ===================================================================
\* parse_kol_zchut.py: split_text_into_chunks
\* ===================================================================

\* A text is kept as what text.replace('\n', ' ').split('. ') makes of it:
\* its pieces, each a sequence of words (none for a blank piece), and whether
\* the text itself ends with a period, which then is still on the last piece.
\* The empty text has no piece.  Words are a letter word and a number.
Words == {"a", "7"}

RECURSIVE SeqsUpTo(_, _)
SeqsUpTo(S, n) ==
    IF n = 0 THEN {<<>>}
    ELSE LET shorter == SeqsUpTo(S, n - 1)
         IN  shorter \cup {Append(s, x) : s \in shorter, x \in S}

Pieces == SeqsUpTo(Words, MaxWords)

Texts ==
    {t \in [pieces : SeqsUpTo(Pieces, MaxSentences), period : BOOLEAN] :
        t.period => (t.pieces # <<>> /\ t.pieces[Len(t.pieces)] # <<>>)}

\* A string of words joined by single spaces; a word carries the periods
\* that follow it.
Word(w, dots) == [word |-> w, dots |-> dots]

\* The tokens of the cl100k_base encoding: a word is one token, and so is a
\* run of periods after it; the space before a letter word belongs to the
\* word's token, the space before a number is a token of its own.
LeadTokens(w) == IF w = "7" THEN 1 ELSE 0

RECURSIVE SumTokens(_, _)
SumTokens(s, k) ==
    IF k = 0 THEN 0
    ELSE SumTokens(s, k - 1) + 1
            + (IF s[k].dots > 0 THEN 1 ELSE 0)
            + (IF k > 1 THEN LeadTokens(s[k].word) ELSE 0)

\* count_tokens(text)
CountTokens(s) == SumTokens(s, Len(s))

\* count_tokens(word + ' '): the space at the end is a token.
CountTokensOfWordAndSpace(word) == CountTokens(<<word>>) + 1

\* ' '.join(parts)
RECURSIVE Join(_)
Join(parts) == IF parts = <<>> THEN <<>> ELSE Head(parts) \o Join(Tail(parts))

\* sentence.strip() + '.'
Sentence(piece, ends_text) ==
    [k \in 1..Len(piece) |->
        Word(piece[k], IF k < Len(piece) THEN 0 ELSE IF ends_text THEN 2 ELSE 1)]

\* Variant: a word that does not fit starts no new chunk.
WordStepDropsWord(ws, word, B) ==
    LET word_tokens == CountTokensOfWordAndSpace(word)
    IN  IF ws.word_chunk_tokens + word_tokens > B
        THEN [chunks |-> IF ws.word_chunk # <<>>
                         THEN Append(ws.chunks, ws.word_chunk) ELSE ws.chunks,
              origin |-> IF ws.word_chunk # <<>>
                         THEN Append(ws.origin, "words") ELSE ws.origin,
              word_chunk |-> <<>>,
              word_chunk_tokens |-> 0]
        ELSE [ws EXCEPT !.word_chunk = Append(ws.word_chunk, word),
                        !.word_chunk_tokens = ws.word_chunk_tokens + word_tokens]

\* One turn of "for word in words".  origin keeps, for each chunk, the branch
\* that appended it.
WordStep(ws, word, B) ==
    LET word_tokens == CountTokensOfWordAndSpace(word)
    IN  IF ws.word_chunk_tokens + word_tokens > B
        THEN [chunks |-> IF ws.word_chunk # <<>>
                         THEN Append(ws.chunks, ws.word_chunk) ELSE ws.chunks,
              origin |-> IF ws.word_chunk # <<>>
                         THEN Append(ws.origin, "words") ELSE ws.origin,
              word_chunk |-> <<word>>,
              word_chunk_tokens |-> word_tokens]
        ELSE [ws EXCEPT !.word_chunk = Append(ws.word_chunk, word),
                        !.word_chunk_tokens = ws.word_chunk_tokens + word_tokens]

RECURSIVE WordLoop(_, _, _, _)
WordLoop(ws, words, k, B) ==
    IF k > Len(words) THEN ws ELSE WordLoop(WordStep(ws, words[k], B), words, k + 1, B)

\* Variant: the sentences accumulated so far are not flushed first, the words
\* of the large sentence are accumulated after them.
SplitSentenceIntoWordsNoFlush(st, sentence, B) ==
    LET ws0 == [chunks |-> st.chunks,
                origin |-> st.origin,
                word_chunk |-> Join(st.current_chunk),
                word_chunk_tokens |-> st.current_tokens]
        ws == WordLoop(ws0, sentence, 1, B)
        rest == ws.word_chunk # <<>>
    IN  [chunks |-> IF rest THEN Append(ws.chunks, ws.word_chunk) ELSE ws.chunks,
         origin |-> IF rest THEN Append(ws.origin, "words") ELSE ws.origin,
         current_chunk |-> <<>>,
         current_tokens |-> 0]

\* The branch of a sentence that alone is larger than the chunk size.
SplitSentenceIntoWords(st, sentence, B) ==
    LET flushed == st.current_chunk # <<>>
        ws0 == [chunks |-> IF flushed THEN Append(st.chunks, Join(st.current_chunk))
                                      ELSE st.chunks,
                origin |-> IF flushed THEN Append(st.origin, "sentences") ELSE st.origin,
                word_chunk |-> <<>>,
                word_chunk_tokens |-> 0]
        ws == WordLoop(ws0, sentence, 1, B)
        rest == ws.word_chunk # <<>>
    IN  [chunks |-> IF rest THEN Append(ws.chunks, ws.word_chunk) ELSE ws.chunks,
         origin |-> IF rest THEN Append(ws.origin, "words") ELSE ws.origin,
         current_chunk |-> <<>>,
         current_tokens |-> 0]

\* Variant: a sentence larger than the chunk size is not split into words.
SentenceStepNoWordSplit(st, piece, ends_text, B) ==
    IF piece = <<>> THEN st
    ELSE LET sentence == Sentence(piece, ends_text)
             sentence_tokens == CountTokens(sentence)
         IN  IF st.current_tokens + sentence_tokens > B /\ st.current_chunk # <<>>
             THEN [chunks |-> Append(st.chunks, Join(st.current_chunk)),
                   origin |-> Append(st.origin, "sentences"),
                   current_chunk |-> <<sentence>>,
                   current_tokens |-> sentence_tokens]
             ELSE [st EXCEPT !.current_chunk = Append(st.current_chunk, sentence),
                             !.current_tokens = st.current_tokens + sentence_tokens]

\* One turn of "for sentence in sentences".
SentenceStep(st, piece, ends_text, B) ==
    IF piece = <<>> THEN st
    ELSE LET sentence == Sentence(piece, ends_text)
             sentence_tokens == CountTokens(sentence)
         IN  IF sentence_tokens > B
             THEN SplitSentenceIntoWords(st, sentence, B)
             ELSE IF st.current_tokens + sentence_tokens > B /\ st.current_chunk # <<>>
             THEN [chunks |-> Append(st.chunks, Join(st.current_chunk)),
                   origin |-> Append(st.origin, "sentences"),
                   current_chunk |-> <<sentence>>,
                   current_tokens |-> sentence_tokens]
             ELSE [st EXCEPT !.current_chunk = Append(st.current_chunk, sentence),
                             !.current_tokens = st.current_tokens + sentence_tokens]

RECURSIVE SentenceLoop(_, _, _, _)
SentenceLoop(st, text, k, B) ==
    IF k > Len(text.pieces) THEN st
    ELSE SentenceLoop(SentenceStep(st, text.pieces[k],
                                   text.period /\ k = Len(text.pieces), B),
                      text, k + 1, B)

\* split_text_into_chunks(text, chunk_size): the chunks, with the branch each
\* came from, and the chunks the closing loop warns about.
SplitTextIntoChunks(text, B) ==
    IF text.pieces = <<>>
    THEN [chunks |-> <<>>, origin |-> <<>>, warnings |-> {}]
    ELSE LET st == SentenceLoop([chunks |-> <<>>, origin |-> <<>>,
                                 current_chunk |-> <<>>, current_tokens |-> 0],
                                text, 1, B)
             last == st.current_chunk # <<>>
             result == IF last THEN Append(st.chunks, Join(st.current_chunk))
                               ELSE st.chunks
         IN  [chunks |-> result,
              origin |-> IF last THEN Append(st.origin, "sentences") ELSE st.origin,
              warnings |-> {n \in 1..Len(result) : CountTokens(result[n]) > B}]

\* A call of split_text_into_chunks returns.
SplitText ==
    /\ chunker.pc = "call"
    /\ LET returned == SplitTextIntoChunks(chunker.text, chunker.chunk_size)
       IN  chunker' = [pc |-> "returned", text |-> chunker.text,
                       chunk_size |-> chunker.chunk_size,
                       chunks |-> returned.chunks, origin |-> returned.origin,
                       warnings |-> returned.warnings]
    /\ UNCHANGED <<cfgvars, disk, chunks, chunk_idx, token_counter, data, docobj, run, mainpc,
                   json_files, files, i, semaphore, pc, attempt, doc, store, log>>

\* split_text_into_chunks called with any text and any chunk size.
InitChunk ==
    /\ orch = "chunker"
    /\ max_concurrent = 0
    /\ batch_size = 0
    /\ embedding_model = DefaultModel("kol_zchut")
    /\ nfiles = 0
    /\ runs = 1
    /\ run = 1
    /\ mainpc = "main"
    /\ json_files = <<>>
    /\ files = <<>>
    /\ i = 0
    /\ semaphore = 0
    /\ pc = [p \in Paths |-> "none"]
    /\ attempt = [p \in Paths |-> 0]
    /\ doc = [p \in Paths |-> NoVector]
    /\ store = EmptyBag
    /\ log = {}
    /\ disk = {}
    /\ chunks = [p \in Paths |-> 0]
    /\ chunk_idx = [p \in Paths |-> 0]
    /\ token_counter = [total_tokens |-> 0, total_files |-> 0]
    /\ data = [p \in Paths |-> NoData]
    /\ docobj = NoDocument
    /\ \E text \in Texts, B \in 1..MaxChunkSize :
          chunker = [pc |-> "call", text |-> text, chunk_size |-> B,
                     chunks |-> <<>>, origin |-> <<>>, warnings |-> {}]

NextChunk == SplitText

SpecChunk == InitChunk /\ [][NextChunk]_vars

\* ===================================================================
\* document.py: the Document model by itself
\* ===================================================================

\* Python values, each with its type.  A float is kept as its repr.
PyNone == [type |-> "NoneType"]
PyStr(s) == [type |-> "str", str |-> s]
PyInt(n) == [type |-> "int", int |-> n]
PyFloat(r) == [type |-> "float", repr |-> r]
PyList(items) == [type |-> "list", items |-> items]
\* A dict is kept as the sequence of its (key, value) pairs, in insertion order.
PyDict(pairs) == [type |-> "dict", pairs |-> pairs]

\* The floats that are not finite.
NonFinite == {"inf"}
Floats == {"0.5"} \cup NonFinite
Ints == 0..MaxPage

\* The fields of Document, in the order of their declaration.
Fields == <<"file_name", "page", "title", "summary", "content", "url", "metadata",
            "embedding">>

\* The values each field's annotation admits, within the bounds.
OptionalStr(s) == {PyNone, PyStr(s)}
Metadatas ==
    {PyNone, PyDict(<<>>), PyDict(<< <<PyStr("total_chunks"), PyInt(1)>> >>),
     PyDict(<< <<PyInt(1), PyStr("x")>> >>)}
Embeddings ==
    {PyNone} \cup {PyList(items) : items \in SeqsUpTo({PyFloat(r) : r \in Floats}, MaxDim)}
Documents ==
    [file_name : {PyStr("a"), PyStr("b")}, page : {PyInt(n) : n \in 1..MaxPage},
     title : OptionalStr("t"), summary : {PyNone, PyStr("")}, content : {PyStr("c")},
     url : {PyNone}, metadata : Metadatas, embedding : Embeddings]

\* JSON text, kept as the value it denotes: a number is its digits.
JNull == [json |-> "null"]
JString(s) == [json |-> "string", chars |-> s]
JNumber(t) == [json |-> "number", digits |-> t]
JArray(elements) == [json |-> "array", elements |-> elements]
\* An object is the sequence of its (name, value) members; a name is a string.
JObject(members) == [json |-> "object", members |-> members]

\* model_dump_json on a value without containers: a float that is not finite
\* is written as null.
ScalarToJson(v) ==
    CASE v.type = "NoneType" -> JNull
      [] v.type = "str" -> JString(v.str)
      [] v.type = "int" -> JNumber(ToString(v.int))
      [] v.type = "float" -> IF v.repr \in NonFinite THEN JNull ELSE JNumber(v.repr)

\* A key of a JSON object is a string: a key that is no str is written as its str().
KeyToJson(k) ==
    CASE k.type = "str" -> k.str
      [] k.type = "int" -> ToString(k.int)

ToJson(v) ==
    CASE v.type = "list" ->
             JArray([n \in DOMAIN v.items |-> ScalarToJson(v.items[n])])
      [] v.type = "dict" ->
             JObject([n \in DOMAIN v.pairs |->
                         <<KeyToJson(v.pairs[n][1]), ScalarToJson(v.pairs[n][2])>>])
      [] OTHER -> ScalarToJson(v)

\* self.model_dump_json(indent=4): every field, in declaration order.
ModelDumpJson(document) ==
    JObject([n \in DOMAIN Fields |-> <<Fields[n], ToJson(document[Fields[n]])>>])

\* What validation makes of JSON that does not fit the annotation.
Invalid == [type |-> "invalid"]

IsIntText(t) == \E n \in Ints : ToString(n) = t
ParseInt(t) == CHOOSE n \in Ints : ToString(n) = t

\* A JSON value read without an annotation (the values of a dict).
JsonToPython(j) ==
    CASE j.json = "null" -> PyNone
      [] j.json = "string" -> PyStr(j.chars)
      [] j.json = "number" ->
             IF IsIntText(j.digits) THEN PyInt(ParseInt(j.digits)) ELSE PyFloat(j.digits)

ValidateStr(j) == IF j.json = "string" THEN PyStr(j.chars) ELSE Invalid

ValidateInt(j) ==
    IF j.json = "number" /\ IsIntText(j.digits) THEN PyInt(ParseInt(j.digits)) ELSE Invalid

\* float: any number, an integer becoming the float of the same value.
ValidateFloat(j) ==
    IF j.json # "number" THEN Invalid
    ELSE IF IsIntText(j.digits) THEN PyFloat(j.digits \o ".0") ELSE PyFloat(j.digits)

ValidateOptionalStr(j) == IF j.json = "null" THEN PyNone ELSE ValidateStr(j)

\* Optional[dict]
ValidateOptionalDict(j) ==
    IF j.json = "null" THEN PyNone
    ELSE IF j.json # "object" THEN Invalid
    ELSE PyDict([n \in DOMAIN j.members |->
                    <<PyStr(j.members[n][1]), JsonToPython(j.members[n][2])>>])

\* Optional[list[float]]
ValidateOptionalListFloat(j) ==
    IF j.json = "null" THEN PyNone
    ELSE IF j.json # "array" THEN Invalid
    ELSE LET items == [n \in DOMAIN j.elements |-> ValidateFloat(j.elements[n])]
         IN  IF \E n \in DOMAIN items : items[n] = Invalid THEN Invalid
             ELSE PyList(items)

Member(j, name) == j.members[CHOOSE n \in DOMAIN j.members : j.members[n][1] = name][2]

ValidationError == [raised |-> "ValidationError"]
FileNotFoundError == [raised |-> "FileNotFoundError"]

\* cls.model_validate_json(f.read())
ModelValidateJson(j) ==
    LET document ==
            [file_name |-> ValidateStr(Member(j, "file_name")),
             page |-> ValidateInt(Member(j, "page")),
             title |-> ValidateOptionalStr(Member(j, "title")),
             summary |-> ValidateOptionalStr(Member(j, "summary")),
             content |-> ValidateOptionalStr(Member(j, "content")),
             url |-> ValidateOptionalStr(Member(j, "url")),
             metadata |-> ValidateOptionalDict(Member(j, "metadata")),
             embedding |-> ValidateOptionalListFloat(Member(j, "embedding"))]
    IN  IF \E n \in DOMAIN Fields : document[Fields[n]] = Invalid THEN ValidationError
        ELSE document

\* f"{self.file_name}_{self.page}.json" and f"{self.file_name}_{self.page}.md"
JsonFilename(document) == <<document.file_name.str, document.page.int, "json">>
MarkdownFilename(document) == <<document.file_name.str, document.page.int, "md">>

\* field.replace('_', ' ').title()
Header(field) ==
    CASE field = "file_name" -> "File Name"
      [] field = "page" -> "Page"
      [] field = "title" -> "Title"
      [] field = "summary" -> "Summary"
      [] field = "content" -> "Content"
      [] field = "url" -> "Url"
      [] field = "metadata" -> "Metadata"
      [] field = "embedding" -> "Embedding"

\* str(value) of a value without containers
PyToStr(v) ==
    CASE v.type = "NoneType" -> "None"
      [] v.type = "str" -> v.str
      [] v.type = "int" -> ToString(v.int)
      [] v.type = "float" -> v.repr

\* to_markdown with every list rendered item by item.
FormattedValueBullets(value) ==
    CASE value.type = "dict" ->
             [n \in DOMAIN value.pairs |->
                 "- " \o PyToStr(value.pairs[n][1]) \o ": " \o PyToStr(value.pairs[n][2])]
      [] value.type = "list" ->
             [n \in DOMAIN value.items |-> "- " \o PyToStr(value.items[n])]
      [] OTHER -> <<PyToStr(value)>>

\* formatted_value of to_markdown, as its lines.
FormattedValue(value) ==
    CASE value.type = "dict" ->
             [n \in DOMAIN value.pairs |->
                 "- " \o PyToStr(value.pairs[n][1]) \o ": " \o PyToStr(value.pairs[n][2])]
      [] value.type = "list" ->
             IF \A n \in DOMAIN value.items : value.items[n].type = "float"
             THEN <<"Vector with " \o ToString(Len(value.items)) \o " dimensions">>
             ELSE [n \in DOMAIN value.items |-> "- " \o PyToStr(value.items[n])]
      [] OTHER -> <<PyToStr(value)>>

\* The values to_markdown skips: None and the empty list or dict.
Skipped(value) ==
    \/ value.type = "NoneType"
    \/ value.type = "list" /\ value.items = <<>>
    \/ value.type = "dict" /\ value.pairs = <<>>

\* The loop of to_markdown from field n on: for a field that is not skipped
\* the header line, the lines of the value and the empty line after them.
RECURSIVE MarkdownParts(_, _)
MarkdownParts(document, n) ==
    IF n > Len(Fields) THEN <<>>
    ELSE LET value == document[Fields[n]]
         IN  (IF Skipped(value) THEN <<>>
              ELSE <<"# " \o Header(Fields[n])>> \o FormattedValue(value) \o <<"">>)
             \o MarkdownParts(document, n + 1)

ToMarkdown(document) == MarkdownParts(document, 1)

NotLoaded == [called |-> FALSE]
NotRendered == [called |-> FALSE]

\* doc.save(output_path)
DocSave ==
    /\ docobj.made
    /\ ~docobj.saved
    /\ disk' = WriteFile(disk, JsonFilename(docobj.self), ModelDumpJson(docobj.self))
    /\ docobj' = [docobj EXCEPT !.saved = TRUE]
    /\ UNCHANGED <<cfgvars, chunks, chunk_idx, token_counter, data, chunker, run, mainpc,
                   json_files, files, i, semaphore, pc, attempt, doc, store, log>>

\* Document.load(file_path), of any path of the directory.
DocLoad ==
    /\ docobj.made
    /\ ~docobj.loaded.called
    /\ \E file_name \in {"a", "b"}, page \in 1..MaxPage :
          LET path == <<file_name, page, "json">>
              exists == \E f \in disk : f.path = path
              result == IF ~exists THEN FileNotFoundError
                        ELSE ModelValidateJson((CHOOSE f \in disk : f.path = path).content)
          IN  docobj' = [docobj EXCEPT
                            !.loaded = [called |-> TRUE, path |-> path, result |-> result]]
    /\ UNCHANGED <<cfgvars, disk, chunks, chunk_idx, token_counter, data, chunker, run,
                   mainpc, json_files, files, i, semaphore, pc, attempt, doc, store, log>>

\* doc.to_markdown()
DocToMarkdown ==
    /\ docobj.made
    /\ ~docobj.markdown.called
    /\ docobj' = [docobj EXCEPT
                     !.markdown = [called |-> TRUE, parts |-> ToMarkdown(docobj.self)]]
    /\ UNCHANGED <<cfgvars, disk, chunks, chunk_idx, token_counter, data, chunker, run,
                   mainpc, json_files, files, i, semaphore, pc, attempt, doc, store, log>>

\* doc.save_to_markdown(output_path)
DocSaveToMarkdown ==
    /\ docobj.made
    /\ ~\E f \in disk : f.path = MarkdownFilename(docobj.self)
    /\ disk' = WriteFile(disk, MarkdownFilename(docobj.self), ToMarkdown(docobj.self))
    /\ UNCHANGED <<cfgvars, chunks, chunk_idx, token_counter, data, chunker, docobj, run,
                   mainpc, json_files, files, i, semaphore, pc, attempt, doc, store, log>>

\* Any Document, with an empty output directory.
InitDoc ==
    /\ orch = "document"
    /\ max_concurrent = 0
    /\ batch_size = 0
    /\ embedding_model = DefaultModel("parse")
    /\ nfiles = 0
    /\ runs = 1
    /\ run = 1
    /\ mainpc = "main"
    /\ json_files = <<>>
    /\ files = <<>>
    /\ i = 0
    /\ semaphore = 0
    /\ pc = [p \in Paths |-> "none"]
    /\ attempt = [p \in Paths |-> 0]
    /\ doc = [p \in Paths |-> NoVector]
    /\ store = EmptyBag
    /\ log = {}
    /\ disk = {}
    /\ chunks = [p \in Paths |-> 0]
    /\ chunk_idx = [p \in Paths |-> 0]
    /\ token_counter = [total_tokens |-> 0, total_files |-> 0]
    /\ data = [p \in Paths |-> NoData]
    /\ chunker = NoCall
    /\ \E self \in Documents :
          docobj = [made |-> TRUE, self |-> self, saved |-> FALSE, loaded |-> NotLoaded,
                    markdown |-> NotRendered]

NextDoc ==
    \/ DocSave
    \/ DocLoad
    \/ DocToMarkdown
    \/ DocSaveToMarkdown

SpecDoc == InitDoc /\ [][NextDoc]_vars

\* ===================================================================
\* Properties
\* ===================================================================

HasLine(msg, file) == Line(msg, file) \in log

\* The items inside the gated section of loader.process_file.
InFlight == {p \in Paths : pc[p] \in {"read", "retry_sleep", "embed", "insert"}}

\* The outcome lines of an item: it was recorded, or its failure was logged.
OutcomeMsgs == {"Inserted document", "Error inserting document", "Error processing",
                "Successfully processed"}

HasOutcome(p) == \E msg \in OutcomeMsgs : HasLine(msg, p)

\* C1: in loader.process_files_parallel at most max_concurrent items are ever
\* inside the gated section (process_document, the wait between its retries,
\* insert_document), the semaphore counts the free slots, and an item that
\* finds max_concurrent items in flight stays waiting in that step.
C1_GateBound ==
    /\ [](Cardinality(InFlight) <= max_concurrent)
    /\ [](mainpc \in {"batch", "gather", "sleep"} =>
              semaphore = max_concurrent - Cardinality(InFlight))
    /\ [][\A p \in Paths :
             (pc[p] = "acquire" /\ Cardinality(InFlight) = max_concurrent)
                 => pc'[p] = "acquire"]_vars

\* C1 witness: the gate is full, with one item between two retries and one
\* at its insert, while a third item of the batch waits.
C1_Witness ==
    /\ Cardinality(InFlight) = max_concurrent
    /\ \E p, q, w \in Paths :
          /\ pc[p] = "retry_sleep"
          /\ pc[q] = "insert"
          /\ pc[w] = "acquire"

\* 1-based position of a file in the list given to the batch loop.
Pos(p) == CHOOSE k \in 1..Len(files) : files[k] = p

\* 0-based number of the batch of the file at position k.
BatchOf(k) == (k - 1) \div batch_size

\* C2: in each of the three orchestrators the items are taken in consecutive
\* batches of batch_size, and no item of a later batch is started before
\* every item of each earlier batch has finished with an outcome (recorded,
\* or a logged failure).
C2_BatchBarrier ==
    /\ i % batch_size = 0
    /\ \A p \in Paths :
          pc[p] \notin {"none", "finished"} =>
              /\ p \in Range(files)
              /\ BatchOf(Pos(p)) = i \div batch_size
    /\ \A a, b \in 1..Len(files) :
          (BatchOf(a) < BatchOf(b) /\ pc[files[b]] # "none") =>
              /\ pc[files[a]] = "finished"
              /\ HasOutcome(files[a])

\* C2 witness: in parse.py an item of the second batch is at its embedding
\* call after the first batch has finished.
C2_Witness ==
    /\ orch = "parse"
    /\ mainpc = "gather"
    /\ i = batch_size
    /\ \E p \in Range(Batch) : pc[p] = "embed"
    /\ \A k \in 1..batch_size : pc[files[k]] = "finished"

Inserted(p) == HasLine("Inserted document", p)

GivenUp(p) == HasLine("Failed to process document", p)

\* C3: process_document makes at most max_retries attempts for an item, starts
\* a further attempt only out of the wait that follows a failed one, and makes
\* none after an attempt got through; an item whose max_retries attempts all
\* failed is logged and skipped (no row, no insert), which changes nothing for
\* the other items: at the end of the run every item of every batch has its
\* outcome.
C3_Retry ==
    /\ [](\A p \in Paths : attempt[p] < max_retries)
    /\ [][\A p \in Paths :
             /\ attempt'[p] > attempt[p] =>
                   (pc[p] = "retry_sleep" /\ attempt'[p] = attempt[p] + 1)
             /\ pc[p] = "embed" => pc'[p] \in {"embed", "insert"}
             /\ pc[p] = "insert" => pc'[p] \in {"insert", "done"}
             /\ (pc[p] = "read" /\ pc'[p] = "done") =>
                   (attempt[p] = max_retries - 1 /\ GivenUp(p)' /\ mainpc' = mainpc
                    /\ \A q \in Paths \ {p} : pc'[q] = pc[q])]_vars
    /\ [](\A p \in Paths :
             GivenUp(p) =>
                 /\ HasLine("Error processing", p)
                 /\ ~Inserted(p)
                 /\ ~HasLine("Error inserting document", p)
                 /\ RowsNamed(Str(p)) = 0
                 /\ pc[p] \in {"done", "finished"})
    /\ []((mainpc = "done" /\ files # <<>>) =>
             \A p \in Range(files) : pc[p] = "finished" /\ HasOutcome(p))

\* C3 witness: the run has ended; an item of the first batch was given up
\* after its third attempt, another item of that batch and an item of the
\* second batch were inserted.
C3_Witness ==
    /\ mainpc = "done"
    /\ \E p, q, r \in Range(files) :
          /\ GivenUp(p) /\ Inserted(q) /\ Inserted(r)
          /\ BatchOf(Pos(p)) = 0 /\ BatchOf(Pos(q)) = 0 /\ BatchOf(Pos(r)) = 1

\* C4: in one run no item has more than one row in the store; an item has a
\* row exactly when its insert succeeded; a row is written only by the item's
\* insert step, which is reached only from an attempt that got through (it
\* holds the embedding of that attempt).  An item that failed on its first
\* two attempts and got through on the third has exactly one row.
C4_ExactlyOnce ==
    /\ [](\A p \in Paths :
             /\ RowsNamed(Str(p)) <= 1
             /\ RowsNamed(Str(p)) = 1 <=> Inserted(p)
             /\ pc[p] = "insert" => doc[p] # NoVector)
    /\ [][\A p \in Paths :
             /\ RowsNamed(Str(p))' > RowsNamed(Str(p)) =>
                   (pc[p] = "insert" /\ pc'[p] = "done")
             /\ (pc'[p] = "insert" /\ pc[p] # "insert") => pc[p] = "embed"
             /\ (pc'[p] = "embed" /\ pc[p] # "embed") => pc[p] = "read"]_vars

\* C4 witness: an item that failed twice and got through on its third attempt
\* has been inserted, and has one row.
C4_Witness ==
    \E p \in Paths :
        /\ pc[p] = "done"
        /\ attempt[p] = max_retries - 1
        /\ Inserted(p)
        /\ RowsNamed(Str(p)) = 1

\* A step in which the task of item p ends with a logged failure.
FailureStep(p) ==
    /\ pc[p] # "done"
    /\ pc'[p] = "done"
    /\ \/ Line("Error processing", p) \in log'
       \/ Line("Error inserting document", p) \in log'

\* The vector in the row of an inserted item, from the item's own log lines.
OwnVector(p) ==
    IF HasLine("Error getting embedding", p) THEN ZeroVector
    ELSE ServiceVector(embedding_model)

QueryFailed == HasLine("Error checking processed files", NoFile)

QueryOk == mainpc \in {"batch", "gather", "sleep", "done"} /\ json_files # <<>>
           /\ ~QueryFailed

\* Number of rows an item had when the current run made its query.
RowsBefore(p) == RowsNamed(Str(p)) - (IF Inserted(p) THEN 1 ELSE 0)

\* 1-based position of a file in the discovered list.
JPos(p) == CHOOSE k \in 1..Len(json_files) : json_files[k] = p

AnyLine(p) == \E l \in log : l.file = p

\* C6: when the store query succeeds, get_unprocessed_files gives exactly the
\* discovered files that have no row named by their string, in discovered
\* order, and the run processes exactly these: every one of them is started,
\* and nothing is started or printed for any other file.
C6_DedupFilter ==
    /\ [][(mainpc = "filter" /\ ~QueryFailed') =>
             /\ \A p \in Range(json_files) :
                   p \in Range(files') <=> RowsNamed(Str(p)) = 0
             /\ Range(files') \subseteq Range(json_files)]_vars
    /\ [](QueryOk =>
             /\ \A p \in Range(json_files) : p \in Range(files) <=> RowsBefore(p) = 0
             /\ \A a, b \in 1..Len(files) :
                   a < b => JPos(files[a]) < JPos(files[b])
             /\ \A p \in Paths :
                   (pc[p] # "none" \/ AnyLine(p)) => p \in Range(files)
             /\ (mainpc = "done" /\ files # <<>>) =>
                   \A p \in Range(files) : HasLine("Processing file", p))

\* C6 witness: a later run whose query succeeded has ended; one discovered
\* file had a row and was left out, the other one was the list to process and
\* was processed.
C6_Witness ==
    /\ QueryOk
    /\ mainpc = "done"
    /\ \E p, q \in Range(json_files) :
          /\ p # q
          /\ RowsBefore(p) = 1 /\ ~AnyLine(p)
          /\ files = <<q>> /\ HasLine("Processing file", q)

\* C7: when the store query fails, get_unprocessed_files does not raise and
\* gives the discovered list as it is: the run goes on to the batch loop and
\* processes every discovered file.
C7_FailOpen ==
    /\ [][(mainpc = "filter" /\ QueryFailed') =>
             (files' = json_files /\ mainpc' = "batch")]_vars
    /\ [](QueryFailed =>
             /\ files = json_files
             /\ mainpc \in {"batch", "gather", "sleep", "done"}
             /\ mainpc = "done" =>
                   \A p \in Range(json_files) :
                       pc[p] = "finished" /\ HasLine("Processing file", p))

\* C7 witness: a run whose query failed has ended, and a file that had a row
\* before was processed and inserted again.
C7_Witness ==
    /\ QueryFailed
    /\ mainpc = "done"
    /\ \E p \in Range(json_files) : Inserted(p) /\ RowsNamed(Str(p)) = 2

\* C8: every name in the store is the string of a path, the one the filter
\* compares.  In a run whose query succeeded no file that had a row is started
\* and no row is added under a name the store already holds; a file whose
\* processing or insert failed in such a run has no row at its end, and a
\* query that succeeds selects every discovered file without a row.
C8_AcrossRuns ==
    /\ [](StoreNames \subseteq {Str(p) : p \in Paths})
    /\ [][QueryOk =>
             \A r \in BagToSet(store') :
                 CopiesIn(r, store') > CopiesIn(r, store) => r.name \notin StoreNames]_vars
    /\ [](QueryOk =>
             \A p \in Paths :
                 /\ HasLine("Processing file", p) => RowsBefore(p) = 0
                 /\ (GivenUp(p) \/ HasLine("Error inserting document", p)) =>
                       RowsNamed(Str(p)) = 0)
    /\ [][(mainpc = "filter" /\ ~QueryFailed') =>
             \A p \in Range(json_files) :
                 RowsNamed(Str(p)) = 0 => p \in Range(files')]_vars

\* C8 witness: in the second run, whose query succeeded, the file inserted by
\* the first run is not started, and the file the first run failed on has
\* been selected again and is now inserted.
C8_Witness ==
    /\ run = 2
    /\ QueryOk
    /\ \E p, q \in Range(json_files) :
          /\ p # q
          /\ pc[p] = "none" /\ RowsNamed(Str(p)) = 1
          /\ Inserted(q) /\ RowsNamed(Str(q)) = 1

\* C9, as claimed: a failed embedding call or a failed store call of an item
\* that has attempts left is attempted again (at once or after the delay).
C9_Original ==
    [][\A p \in Paths :
          (/\ attempt[p] < max_retries - 1
           /\ \/ pc[p] = "embed" /\ Line("Error getting embedding", p) \in log'
              \/ pc[p] = "insert" /\ Line("Error inserting document", p) \in log')
              => pc'[p] \in {"retry_sleep", pc[p]}]_vars

\* C9, amended: only a failure of the read / parse step is attempted again,
\* after the delay, at most max_retries attempts in all, before the item is
\* given up with a log line.  A failed embedding call is not attempted again:
\* the zero vector takes its place and the item goes on to its insert.  A
\* failed store insert is not attempted again: it is logged and the item ends
\* without a row.
C9_RetryOnlyRead ==
    /\ [][\A p \in Paths :
             /\ (pc[p] = "read" /\ pc'[p] \notin {"read", "embed"}) =>
                   IF attempt[p] < max_retries - 1
                   THEN pc'[p] = "retry_sleep"
                   ELSE pc'[p] = "done" /\ GivenUp(p)'
             /\ (pc[p] = "retry_sleep" /\ pc'[p] # "retry_sleep") =>
                   (pc'[p] = "read" /\ attempt'[p] = attempt[p] + 1)
             /\ (pc[p] = "embed" /\ pc'[p] # "embed") =>
                   /\ pc'[p] = "insert"
                   /\ attempt'[p] = attempt[p]
                   /\ HasLine("Error getting embedding", p)' <=> doc'[p] = ZeroVector
             /\ (pc[p] = "insert" /\ pc'[p] # "insert") =>
                   /\ pc'[p] = "done"
                   /\ attempt'[p] = attempt[p]
                   /\ HasLine("Error inserting document", p)' =>
                         (store' = store /\ ~Inserted(p)')]_vars
    /\ [](\A p \in Paths :
             (HasLine("Error getting embedding", p) /\ pc[p] = "done") =>
                 (Inserted(p) \/ HasLine("Error inserting document", p)))

\* C9 witness: an item ended on its first attempt although its embedding call
\* and its insert both failed.
C9_Witness ==
    \E p \in Paths :
        /\ pc[p] = "done"
        /\ attempt[p] = 0
        /\ HasLine("Error getting embedding", p)
        /\ HasLine("Error inserting document", p)

\* C10, as claimed: the vector get_embedding gives for a failed call is all
\* zero and as long as the vectors of the configured embedding model.
C10_ZeroVectorOfModelDim ==
    \A p \in Paths :
        (pc[p] = "insert" /\ HasLine("Error getting embedding", p)) =>
            (doc[p].zero /\ doc[p].dim = ModelDim(embedding_model))

\* The paths of the files on the disk.
DiskPaths == {f.path : f \in disk}

\* Length of the embedding a file on the disk shows: the vector in a JSON
\* file, the number of the rendering in a markdown file.
SavedDim(f) ==
    IF f.path[3] = "json" THEN f.content.embedding.dim ELSE f.content.embedding[2]

\* C11: no file on the disk and no row of the store carries an empty
\* embedding.  In parse.py and parse_kol_zchut.py the disk changes only in the
\* step in which get_embedding returned, and only by the files of the Document
\* that was embedded; the step in which get_embedding raises writes nothing
\* and ends the task.
C11_NoEmptyEmbedding ==
    /\ [](\A f \in disk : SavedDim(f) > 0)
    /\ [](\A r \in BagToSet(store) : r.embedding.dim > 0)
    /\ [][disk' # disk =>
             \E p \in Paths :
                 /\ pc[p] = "embed"
                 /\ Line("Embedding error", p) \notin log'
                 /\ \A f \in disk' \ disk :
                       /\ f.path[1] = doc[p].file_name
                       /\ f.path[2] = doc[p].page
                       /\ SavedDim(f) = ModelDim(embedding_model)]_vars
    /\ [][\A p \in Paths :
             (/\ orch # "loader"
              /\ pc[p] = "embed"
              /\ Line("Embedding error", p) \in log' \ log)
                 => (disk' = disk /\ pc'[p] = "done")]_vars

\* C11 witness: in parse_kol_zchut.py the embedding of the second chunk of a
\* file failed; its first chunk is on the disk with its embedding, its second
\* chunk is not.
C11_Witness ==
    /\ orch = "kol_zchut"
    /\ \E p \in Paths :
          /\ pc[p] = "done"
          /\ HasLine("Embedding error", p)
          /\ chunk_idx[p] = 2
          /\ <<(<<BaseFilename(p), "chunk", 1>>), 1, "json">> \in DiskPaths
          /\ <<(<<BaseFilename(p), "chunk", 2>>), 2, "json">> \notin DiskPaths

\* C12, as claimed: whatever the input files are, all of them bad included,
\* no orchestrator ends by an exception that nothing catches.
C12_NoCrash == mainpc # "crashed"

\* C13: a failed store insert does not leave insert_document as an exception:
\* the step that ends an insert without a new row logs "Error inserting
\* document" and not "Error processing", adds nothing to the store, ends the
\* item, gives its slot back and leaves every other item and the batch loop
\* where they are.  The item has no row, and the run still reaches its end
\* with every selected item finished with an outcome line.
C13_InsertFailure ==
    /\ [][\A p \in Paths :
             (pc[p] = "insert" /\ pc'[p] # "insert" /\ ~Inserted(p)') =>
                 /\ Line("Error inserting document", p) \in log'
                 /\ Line("Error processing", p) \notin log'
                 /\ store' = store
                 /\ pc'[p] = "done"
                 /\ semaphore' = semaphore + 1
                 /\ mainpc' = mainpc
                 /\ \A q \in Paths \ {p} : pc'[q] = pc[q]]_vars
    /\ [](\A p \in Paths :
             HasLine("Error inserting document", p) =>
                 (~Inserted(p) /\ RowsNamed(Str(p)) = 0))
    /\ []((mainpc = "done" /\ files # <<>>) =>
             /\ semaphore = max_concurrent
             /\ \A p \in Range(files) : pc[p] = "finished" /\ HasOutcome(p))

\* C13 witness: the run is over; the insert of one item failed and left no
\* row, and an item after it in the list was inserted.
C13_Witness ==
    /\ mainpc = "done"
    /\ semaphore = max_concurrent
    /\ \E p, q \in Range(files) :
          /\ HasLine("Error inserting document", p)
          /\ RowsNamed(Str(p)) = 0
          /\ Pos(p) < Pos(q)
          /\ Inserted(q)

\* C14: in parse.py the step in which translate_text fails writes nothing,
\* logs the error and ends the task of the file, which is never reported as
\* processed.  The disk changes only by the Document of a task whose
\* translation did not fail, and the summary saved is the translation, or
\* None for a file that had no text to translate.
C14_TranslationFailure ==
    /\ [][\A p \in Paths :
             (pc[p] = "translate" /\ Line("Translation error", p) \in log') =>
                 /\ disk' = disk
                 /\ pc'[p] = "done"
                 /\ Line("Error processing", p) \in log']_vars
    /\ [](\A p \in Paths :
             (orch = "parse" /\ HasLine("Translation error", p)) =>
                 /\ pc[p] \in {"done", "finished"}
                 /\ ~HasLine("Successfully processed", p))
    /\ [][(orch = "parse" /\ disk' # disk) =>
             \E p \in Paths :
                 /\ pc[p] = "embed"
                 /\ Line("Translation error", p) \notin log'
                 /\ \A f \in disk' \ disk :
                       /\ f.path[1] = doc[p].file_name
                       /\ f.content.summary =
                             IF HasLine("No text to translate", p)
                             THEN "None" ELSE "hebrew_translation"]_vars
    /\ [](orch = "parse" =>
             \A f \in disk : f.content.summary \in {"hebrew_translation", "None"})

\* C14 witness: the translation of one file failed and nothing is on the disk
\* under its name, while another file was saved with its translation.
C14_Witness ==
    /\ orch = "parse"
    /\ \E p, q \in Paths :
          /\ pc[p] = "done"
          /\ HasLine("Translation error", p)
          /\ <<ExtractFileInfo(p)[1], ExtractFileInfo(p)[2], "json">> \notin DiskPaths
          /\ HasLine("Successfully processed", q)
          /\ \E f \in disk :
                /\ f.path = <<ExtractFileInfo(q)[1], ExtractFileInfo(q)[2], "json">>
                /\ f.content.summary = "hebrew_translation"

\* The identity (file_name, page) of the first Document a file gives.
Identity(p) ==
    IF orch = "parse" THEN ExtractFileInfo(p)
                      ELSE <<(<<BaseFilename(p), "chunk", 1>>), 1>>

\* C15, as claimed: two distinct input files of a run never give Documents
\* with the same (file_name, page), so no saved file is overwritten by the
\* Document of another input.
C15_UniqueIdentity ==
    \A p, q \in Paths :
        (/\ orch \in {"parse", "kol_zchut"}
         /\ p # q
         /\ HasLine("Successfully processed", p)
         /\ HasLine("Successfully processed", q))
            => Identity(p) # Identity(q)

\* The input of the end-to-end example: a text and an empty list of entities.
TextOnly == [text |-> "text", entities |-> <<>>]

\* C18, as claimed: a file that holds a text field only, processed with a
\* large chunk size and without a failed embedding call, is reported as
\* processed and gives a Document whose content is the input text and whose
\* metadata has total_chunks = 1.
C18_SingleChunk ==
    \A p \in Paths :
        (/\ orch \in {"parse", "kol_zchut"}
         /\ pc[p] = "done"
         /\ data[p] = TextOnly
         /\ ~HasLine("Embedding error", p))
            => /\ HasLine("Successfully processed", p)
               /\ \E f \in disk :
                     /\ f.path = <<doc[p].file_name, doc[p].page, "json">>
                     /\ f.content.content = data[p].text
                     /\ "total_chunks" \in DOMAIN f.content.metadata
                     /\ f.content.metadata.total_chunks = 1

\* The tokens of the sentences of a chunk, each sentence counted on its own
\* as split_text_into_chunks counts it: a word that follows the end of a
\* sentence is the first word of its own string.
RECURSIVE SumSeparately(_, _)
SumSeparately(s, k) ==
    IF k = 0 THEN 0
    ELSE SumSeparately(s, k - 1) + 1
            + (IF s[k].dots > 0 THEN 1 ELSE 0)
            + (IF k > 1 /\ s[k - 1].dots = 0 THEN LeadTokens(s[k].word) ELSE 0)

SeparateTokens(s) == SumSeparately(s, Len(s))

\* C16, as claimed: every chunk built from whole sentences has at most
\* chunk_size tokens, and every chunk with more tokens is warned about.
C16_Original ==
    \A n \in 1..Len(chunker.chunks) :
        /\ chunker.origin[n] = "sentences" =>
              CountTokens(chunker.chunks[n]) <= chunker.chunk_size
        /\ CountTokens(chunker.chunks[n]) > chunker.chunk_size =>
              n \in chunker.warnings

\* C16, amended: for every chunk built from whole sentences the token counts
\* of its sentences, each counted on its own, sum to at most chunk_size; the
\* chunk itself, the sentences joined by spaces, may have more.  The chunks
\* warned about are exactly the chunks with more than chunk_size tokens,
\* whichever branch they come from.
C16_SentenceSumBound ==
    /\ \A n \in 1..Len(chunker.chunks) :
          chunker.origin[n] = "sentences" =>
              SeparateTokens(chunker.chunks[n]) <= chunker.chunk_size
    /\ chunker.pc = "returned" =>
          chunker.warnings =
              {n \in 1..Len(chunker.chunks) :
                  CountTokens(chunker.chunks[n]) > chunker.chunk_size}

\* C16 witness: a chunk of two sentences whose counts sum to chunk_size has
\* one token more than chunk_size and is warned about.
C16_Witness ==
    /\ chunker.pc = "returned"
    /\ \E n \in chunker.warnings :
          /\ chunker.origin[n] = "sentences"
          /\ SeparateTokens(chunker.chunks[n]) = chunker.chunk_size
          /\ CountTokens(chunker.chunks[n]) = chunker.chunk_size + 1

\* The sentences of a text from its k-th piece on, joined by single spaces:
\* each piece that is not blank, with its period appended, in the order of
\* the text.
RECURSIVE SentencesFrom(_, _)
SentencesFrom(text, k) ==
    IF k > Len(text.pieces) THEN <<>>
    ELSE Sentence(text.pieces[k], text.period /\ k = Len(text.pieces))
            \o SentencesFrom(text, k + 1)

\* C17: the chunks split_text_into_chunks returns, joined by single spaces,
\* are the sentences of the text that are not blank, each with its period
\* appended, in the order of the text: no word is dropped, repeated or moved,
\* and no chunk is empty.
C17_NothingLost ==
    chunker.pc = "returned" =>
        /\ Join(chunker.chunks) = SentencesFrom(chunker.text, 1)
        /\ \A n \in 1..Len(chunker.chunks) : chunker.chunks[n] # <<>>

\* C17 witness: a text with one sentence that was split into words and one
\* that was kept whole came back in three chunks or more.
C17_Witness ==
    /\ chunker.pc = "returned"
    /\ Len(chunker.chunks) >= 3
    /\ \E n, m \in 1..Len(chunker.chunks) :
          /\ chunker.origin[n] = "words"
          /\ chunker.origin[m] = "sentences"

\* C19, as claimed: in each orchestrator, when the batch that has completed is
\* not the last one, the batch loop goes to its fixed pause before it starts
\* the next batch, and no item starts while the pause lasts.
C19_Pacing ==
    /\ [][(/\ mainpc = "gather"
           /\ mainpc' # "gather"
           /\ i + batch_size < Len(files)) => mainpc' = "sleep"]_vars
    /\ [][mainpc = "sleep" => pc' = pc]_vars

\* The steps an item of the loader may still take, at most, from where it
\* stands.
TaskRank(p) ==
    CASE pc[p] = "none"        -> 2 * max_retries + 4
      [] pc[p] = "acquire"     -> 2 * max_retries + 3
      [] pc[p] = "read"        -> 2 * (max_retries - attempt[p]) + 2
      [] pc[p] = "retry_sleep" -> 2 * (max_retries - attempt[p]) + 1
      [] pc[p] = "embed"       -> 3
      [] pc[p] = "insert"      -> 2
      [] pc[p] = "done"        -> 1
      [] OTHER                 -> 0

\* Where the batch loop stands, counted so that a turn of the loop together
\* with the items it starts goes down.
MainRank ==
    CASE mainpc = "main"   -> 5
      [] mainpc = "filter" -> 4
      [] mainpc = "gather" -> 3
      [] mainpc = "sleep"  -> 2
      [] mainpc = "batch"  -> 1
      [] OTHER             -> 0

RECURSIVE RankSum(_)
RankSum(k) == IF k = 0 THEN 0 ELSE TaskRank(PathOf(k)) + RankSum(k - 1)

\* A natural number that every step of a run makes smaller.
Measure == 4 * RankSum(NFiles) + MainRank

\* C20: every run of loader.py terminates: it reaches the end of main; each
\* step makes Measure smaller, and as long as the run is not over a step can
\* be taken (every external call in flight can return or fail).  An item
\* enters the gate once,
\* from the waiting state it was started into, and no item goes back or is
\* cancelled.  An item at its end has made at most max_retries attempts and
\* is recorded or has a logged failure.  When the run is over every slot of
\* the gate is free and every selected item has finished.
C20_RunToCompletion ==
    /\ <>(mainpc = "done")
    /\ [][Measure' < Measure]_vars
    /\ [](Measure >= 0)
    /\ [](mainpc = "done" \/ ENABLED Next)
    /\ [][\A p \in Paths :
             /\ (pc'[p] = "acquire" /\ pc[p] # "acquire") => pc[p] = "none"
             /\ (pc'[p] = "read" /\ pc[p] = "acquire") => ~HasLine("Processing file", p)
             /\ pc'[p] = "none" => pc[p] = "none"
             /\ pc[p] = "finished" => pc'[p] = "finished"]_vars
    /\ [](\A p \in Paths :
             /\ pc[p] \in {"none", "acquire", "read", "retry_sleep", "embed", "insert",
                           "done", "finished"}
             /\ pc[p] = "done" =>
                   /\ attempt[p] < max_retries
                   /\ \/ Inserted(p)
                      \/ HasLine("Error inserting document", p)
                      \/ GivenUp(p) /\ attempt[p] = max_retries - 1)
    /\ [](mainpc = "done" =>
             /\ semaphore = IF files = <<>> THEN 0 ELSE max_concurrent
             /\ InFlight = {}
             /\ \A p \in Paths :
                   pc[p] = IF p \in Range(files) THEN "finished" ELSE "none")

\* C20 witness: a run over three items or more is over with every slot free;
\* one item was given up after its last attempt, one was inserted, and the
\* insert of one failed.
C20_Witness ==
    /\ mainpc = "done"
    /\ semaphore = max_concurrent
    /\ \E p, q, r \in Range(files) :
          /\ GivenUp(p)
          /\ Inserted(q)
          /\ HasLine("Error inserting document", r)

\* The Documents whose JSON form holds every value as it is: finite embedding
\* values and str keys in metadata.
JsonNative(document) ==
    /\ document.embedding.type = "list" =>
          \A n \in DOMAIN document.embedding.items :
              document.embedding.items[n].repr \notin NonFinite
    /\ document.metadata.type = "dict" =>
          \A n \in DOMAIN document.metadata.pairs :
              document.metadata.pairs[n][1].type = "str"

\* C21, as claimed: for every Document doc, Document.load of the file that
\* doc.save wrote ({file_name}_{page}.json) returns a Document equal to doc in
\* every field, metadata and embedding values included; load of a path with
\* no file fails with FileNotFoundError; and a load changes neither the
\* directory nor doc.
C21_RoundTrip ==
    [][(docobj.made /\ ~docobj.loaded.called /\ docobj'.loaded.called) =>
          /\ disk' = disk
          /\ docobj'.self = docobj.self
          /\ (~\E f \in disk : f.path = docobj'.loaded.path) =>
                docobj'.loaded.result = FileNotFoundError
          /\ (docobj.saved /\ docobj'.loaded.path = JsonFilename(docobj.self)) =>
                docobj'.loaded.result = docobj.self]_vars

\* The round trip of the Documents whose values JSON holds as they are.
RoundTripOfJsonNative ==
    [][(docobj.made /\ ~docobj.loaded.called /\ docobj'.loaded.called
        /\ docobj.saved /\ docobj'.loaded.path = JsonFilename(docobj.self)
        /\ JsonNative(docobj.self)) =>
          docobj'.loaded.result = docobj.self]_vars

\* The lines that would show a value of the embedding.
EmbeddingValueLines(document) ==
    IF document.embedding.type # "list" THEN {}
    ELSE UNION {{document.embedding.items[n].repr,
                 "- " \o document.embedding.items[n].repr} :
                    n \in DOMAIN document.embedding.items}

\* The lines to_markdown returned, from the header of a field to the empty
\* line that ends its section.
Section(parts, field) ==
    LET first == CHOOSE n \in DOMAIN parts : parts[n] = "# " \o Header(field)
        last == CHOOSE n \in first..Len(parts) :
                    parts[n] = "" /\ \A m \in first..(n - 1) : parts[m] # ""
    IN  SubSeq(parts, first, last)

\* C22: to_markdown emits no section for a field that is None or an empty
\* list or dict, and a section for every other field; a non-empty embedding
\* of N floats is rendered as the one line "Vector with N dimensions"; and no
\* line of the output shows a value of the embedding.  save_to_markdown writes
\* the same rendering.
C22_Rendering ==
    /\ (docobj.made /\ docobj.markdown.called) =>
          LET parts == docobj.markdown.parts
              self == docobj.self
          IN  /\ \A n \in DOMAIN Fields :
                     Skipped(self[Fields[n]]) <=>
                         ~\E m \in DOMAIN parts : parts[m] = "# " \o Header(Fields[n])
              /\ (self.embedding.type = "list" /\ self.embedding.items # <<>>) =>
                     Section(parts, "embedding") =
                         <<"# Embedding",
                           "Vector with " \o ToString(Len(self.embedding.items))
                               \o " dimensions",
                           "">>
              /\ \A m \in DOMAIN parts : parts[m] \notin EmbeddingValueLines(self)
    /\ docobj.made =>
          \A f \in disk : f.path = MarkdownFilename(docobj.self) =>
              /\ f.content = ToMarkdown(docobj.self)
              /\ \A m \in DOMAIN f.content :
                     f.content[m] \notin EmbeddingValueLines(docobj.self)

\* C22 witness: a Document with no title, an empty metadata dict and an
\* embedding of MaxDim floats was rendered and written as markdown.
C22_Witness ==
    /\ docobj.made
    /\ docobj.markdown.called
    /\ docobj.self.title = PyNone
    /\ docobj.self.metadata = PyDict(<<>>)
    /\ docobj.self.embedding.type = "list"
    /\ Len(docobj.self.embedding.items) = MaxDim
    /\ \E f \in disk : f.path = MarkdownFilename(docobj.self)
    /\ \E m \in DOMAIN docobj.markdown.parts :
          docobj.markdown.parts[m] = "Vector with " \o ToString(MaxDim) \o " dimensions"

\* Chunks of file p that were embedded so far in the batch that runs: all of
\* them after "Successfully processed", else those before the current one.
Embedded(p) ==
    IF chunk_idx[p] = 0 THEN 0
    ELSE IF HasLine("Successfully processed", p) THEN chunk_idx[p]
    ELSE chunk_idx[p] - 1

\* Token counts of the first k chunks of content_chunks, added up.
RECURSIVE SumOfChunkTokens(_, _)
SumOfChunkTokens(content_chunks, k) ==
    IF k = 0 THEN 0 ELSE content_chunks[k] + SumOfChunkTokens(content_chunks, k - 1)

\* Over the first k files of the batch: the chunks embedded and their tokens.
RECURSIVE BatchEmbedded(_)
BatchEmbedded(k) ==
    IF k = 0 THEN 0 ELSE Embedded(Batch[k]) + BatchEmbedded(k - 1)

RECURSIVE BatchTokens(_)
BatchTokens(k) ==
    IF k = 0 THEN 0
    ELSE SumOfChunkTokens(chunks[Batch[k]], Embedded(Batch[k])) + BatchTokens(k - 1)

\* The tasks whose chunk is embedded by the step.
EmbeddedByStep ==
    {p \in Paths :
        /\ orch = "kol_zchut"
        /\ pc[p] = "embed"
        /\ \/ chunk_idx'[p] = chunk_idx[p] + 1
           \/ Line("Successfully processed", p) \in log' \ log}

\* C23: under every interleaving of the process_file tasks of a batch, the
\* step that embeds a chunk of t tokens raises total_files by exactly 1 and
\* total_tokens by exactly t, and no other step changes the counter; so while
\* the first batch runs the counter holds exactly the number of chunks its
\* tasks embedded so far and the sum of their token counts, and a Document is
\* on the disk only if it was counted.
C23_NoLostUpdate ==
    /\ [][IF EmbeddedByStep = {} THEN token_counter' = token_counter
          ELSE \E p \in EmbeddedByStep :
                  /\ EmbeddedByStep = {p}
                  /\ token_counter' =
                         [total_tokens |-> token_counter.total_tokens
                                               + chunks[p][chunk_idx[p]],
                          total_files |-> token_counter.total_files + 1]]_vars
    /\ []((orch = "kol_zchut" /\ mainpc = "gather" /\ i = 0) =>
             /\ token_counter.total_files = BatchEmbedded(Len(Batch))
             /\ token_counter.total_tokens = BatchTokens(Len(Batch)))
    /\ []((orch = "kol_zchut") =>
             Cardinality({f \in disk : f.path[3] = "json"}) <= token_counter.total_files)

\* C23 witness: in the first batch two tasks are between two chunks of their
\* files at the same time, a third is through, and the counter holds the
\* chunks of all three.
C23_Witness ==
    /\ orch = "kol_zchut"
    /\ mainpc = "gather"
    /\ i = 0
    /\ \E p, q \in Range(Batch) :
          /\ p # q
          /\ pc[p] = "embed" /\ chunk_idx[p] = 2
          /\ pc[q] = "embed" /\ chunk_idx[q] = 2
          /\ \E r \in Range(Batch) \ {p, q} : HasLine("Successfully processed", r)
    /\ token_counter.total_files >= 3
    /\ token_counter.total_files = BatchEmbedded(Len(Batch))

\* The JSON file the step wrote for chunk idx of file p.
SavedChunk(p, idx) ==
    {f \in disk' : f.path = << <<BaseFilename(p), "chunk", idx>>, idx, "json">>}

\* Every Document a task produces is the next chunk of its file: page and
\* content are those of chunk Embedded(p) + 1, total_chunks is the number of
\* chunks of the file and chunk_size the size in use.
ChunkMetadataOfStep ==
    \A p \in EmbeddedByStep :
        LET idx == chunk_idx[p]
        IN  /\ idx = Embedded(p) + 1
            /\ Embedded(p)' = idx
            /\ chunks'[p] = chunks[p]
            /\ idx \in 1..Len(chunks[p])
            /\ SavedChunk(p, idx) # {}
            /\ \A f \in SavedChunk(p, idx) :
                  /\ f.content.page = idx
                  /\ f.content.content = chunks[p][idx]
                  /\ f.content.metadata.total_chunks = Len(chunks[p])
                  /\ f.content.metadata.chunk_size = chunk_size

\* The files whose task built its first Document and has ended.
EndedAfterParsing ==
    {p \in Paths :
        /\ orch = "kol_zchut"
        /\ pc[p] = "done"
        /\ data[p] # NoData
        /\ "file_name" \in DOMAIN data[p]}

\* C24, as claimed: every Document of a source file records the number of
\* chunks of the file and the chunk size, and the Documents of the file have
\* the pages 1..total_chunks, each exactly once, in the order of the chunks.
C24_Original ==
    /\ [][ChunkMetadataOfStep]_vars
    /\ [](\A p \in EndedAfterParsing : Embedded(p) = Len(chunks[p]))

\* C24, amended: every Document of a source file records the number of chunks
\* of the file and the chunk size, and the Documents come page by page in the
\* order of the chunks, each page once, starting at 1.  They are the pages
\* 1..total_chunks when every embedding of the file succeeded; a file whose
\* embedding failed at chunk k has Documents for the pages 1..k-1 only, each
\* recording the total_chunks of the whole file.
C24_ChunkMetadata ==
    /\ [][ChunkMetadataOfStep]_vars
    /\ [](\A p \in EndedAfterParsing :
             IF HasLine("Successfully processed", p)
             THEN Embedded(p) = Len(chunks[p])
             ELSE /\ HasLine("Embedding error", p)
                  /\ Embedded(p) < Len(chunks[p]))

\* C24 witness: a file of MaxChunks chunks was processed to the end, and the
\* task of another file ended at its second chunk after the first was saved.
C24_Witness ==
    /\ orch = "kol_zchut"
    /\ \E p, q \in EndedAfterParsing :
          /\ BaseFilename(p) # BaseFilename(q)
          /\ HasLine("Successfully processed", p)
          /\ Len(chunks[p]) = MaxChunks
          /\ Embedded(p) = MaxChunks
          /\ \A k \in 1..MaxChunks :
                \E f \in disk :
                    /\ f.path = << <<BaseFilename(p), "chunk", k>>, k, "json">>
                    /\ f.content.metadata.total_chunks = MaxChunks
          /\ HasLine("Embedding error", q)
          /\ Len(chunks[q]) = MaxChunks
          /\ Embedded(q) = 1

\* Words of the chunks before chunk n.
RECURSIVE WordsBefore(_, _)
WordsBefore(cs, n) == IF n <= 1 THEN 0 ELSE Len(cs[n - 1]) + WordsBefore(cs, n - 1)

\* Positions of chunk n among the words of all chunks in a row.
ChunkPositions(cs, n) == (WordsBefore(cs, n) + 1)..(WordsBefore(cs, n) + Len(cs[n]))

\* The sentence a position belongs to: a word with a period ends its sentence.
SentenceIndex(all, pos) == 1 + Cardinality({q \in 1..(pos - 1) : all[q].dots > 0})

SentencePositions(all, k) == {pos \in 1..Len(all) : SentenceIndex(all, pos) = k}

\* The sentence of a position, as split_text_into_chunks counts it.
SentenceAt(all, pos) ==
    LET here == SentencePositions(all, SentenceIndex(all, pos))
        first == CHOOSE a \in here : \A b \in here : a <= b
    IN  SubSeq(all, first, first + Cardinality(here) - 1)

\* word_chunk_tokens of a chunk of words: count_tokens(word + ' ') added up.
RECURSIVE WordChunkTokens(_, _)
WordChunkTokens(c, k) ==
    IF k = 0 THEN 0 ELSE CountTokensOfWordAndSpace(c[k]) + WordChunkTokens(c, k - 1)

\* C25: a sentence that alone has more than chunk_size tokens is emitted word
\* by word, in chunks of its own: the sentences accumulated before it are
\* flushed first, its words are accumulated by the same greedy rule (a word
\* that would take the count above chunk_size starts the next chunk), and the
\* sentences after it are accumulated from an empty accumulator.  No chunk
\* holds words of such a sentence together with words of another sentence,
\* and every other sentence lies whole inside one chunk of whole sentences,
\* which is flushed only by a sentence that does not fit or by a large one.
C25_OversizedSentence ==
    chunker.pc = "returned" =>
        LET cs == chunker.chunks
            B == chunker.chunk_size
            all == Join(cs)
        IN  \A n \in 1..Len(cs) :
               /\ \A pos \in ChunkPositions(cs, n) :
                     IF CountTokens(SentenceAt(all, pos)) > B
                     THEN /\ chunker.origin[n] = "words"
                          /\ \A other \in ChunkPositions(cs, n) :
                                SentenceIndex(all, other) = SentenceIndex(all, pos)
                     ELSE /\ chunker.origin[n] = "sentences"
                          /\ SentencePositions(all, SentenceIndex(all, pos))
                                \subseteq ChunkPositions(cs, n)
               /\ chunker.origin[n] = "words" =>
                     /\ Len(cs[n]) > 1 => WordChunkTokens(cs[n], Len(cs[n])) <= B
                     /\ (n < Len(cs)
                         /\ SentenceIndex(all, WordsBefore(cs, n + 1) + 1)
                               = SentenceIndex(all, WordsBefore(cs, n) + 1)) =>
                           WordChunkTokens(cs[n], Len(cs[n]))
                               + CountTokensOfWordAndSpace(cs[n + 1][1]) > B
               /\ (chunker.origin[n] = "sentences" /\ n < Len(cs)
                   /\ chunker.origin[n + 1] = "sentences") =>
                     SeparateTokens(cs[n])
                         + CountTokens(SentenceAt(all, WordsBefore(cs, n + 1) + 1)) > B

\* C25 witness: a sentence that fits came back as a chunk of its own, and the
\* large sentence next to it in two chunks of words.
C25_Witness ==
    /\ chunker.pc = "returned"
    /\ Len(chunker.text.pieces) = 2
    /\ Len(chunker.chunks) = 3
    /\ \E n \in 1..3 :
          /\ chunker.origin[n] = "sentences"
          /\ \A m \in (1..3) \ {n} : chunker.origin[m] = "words"

\* The files of parse_kol_zchut.py that were read and parsed, with the task
\* at its end.
ReadAndParsed ==
    {p \in Paths : orch = "kol_zchut" /\ pc[p] = "done" /\ data[p] # NoData}

\* data.get('content', '') is the empty string.
EmptyContent(json) == IF "content" \in DOMAIN json THEN json.content = 0 ELSE TRUE

\* C26, as claimed: split_text_into_chunks returns no chunk for the empty text
\* and for a text without a sentence that is not blank; process_file then
\* takes the one chunk '', so every file that was read and parsed gives at
\* least one Document, and a file with empty content exactly one, of page 1,
\* with content '' and total_chunks 1.
C26_EmptyInput ==
    /\ (chunker.pc = "returned"
        /\ \A k \in 1..Len(chunker.text.pieces) : chunker.text.pieces[k] = <<>>) =>
          chunker.chunks = <<>>
    /\ \A p \in ReadAndParsed :
          /\ Len(chunks[p]) >= 1
          /\ doc[p] # NoVector
          /\ EmptyContent(data[p]) =>
                /\ chunks[p] = <<0>>
                /\ doc[p].page = 1
                /\ doc[p].content = 0
                /\ doc[p].metadata.total_chunks = 1

\* The chunks of file p whose Document is on the disk: the JSON file of the
\* chunk holds the Document process_file built from p for it.
PersistedChunks(p) ==
    {k \in 1..Len(chunks[p]) :
        \E f \in disk :
            /\ f.path = << <<BaseFilename(p), "chunk", k>>, k, "json">>
            /\ f.content = [ChunkDocument(p, chunks[p], k) EXCEPT
                               !.embedding = ServiceVector(embedding_model)]}

\* The files whose task is in its chunk loop or has left it.
InChunkLoop ==
    {p \in Paths :
        /\ orch = "kol_zchut"
        /\ chunk_idx[p] >= 1
        /\ "file_name" \in DOMAIN data[p]}

\* C27, as claimed: the chunks of a file are embedded and persisted one after
\* the other in ascending order, and in every state, also after a failure at
\* some chunk, the persisted chunk Documents of the file are the chunks 1..j
\* for some j, without a gap.
C27_PrefixOnDisk ==
    /\ [][\A p \in EmbeddedByStep :
             /\ chunk_idx[p] = Embedded(p) + 1
             /\ Embedded(p)' = chunk_idx[p]]_vars
    /\ [](\A p \in InChunkLoop :
             \E j \in 0..Len(chunks[p]) : PersistedChunks(p) = 1..j)

\* The row of an item whose embedding call failed.
ZeroRow(p) == Row(Str(p), ZeroVector)

\* Rows with the zero vector an item had when the current run made its query.
ZeroRowsBefore(p) ==
    CopiesIn(ZeroRow(p), store)
        - (IF Inserted(p) /\ HasLine("Error getting embedding", p) THEN 1 ELSE 0)

\* The step in which the embedding call of an item fails: the item goes on to
\* its insert with the zero vector, on the same attempt.
FailedEmbeddingGoesOn ==
    \A p \in Paths :
        (orch = "loader" /\ pc[p] = "embed"
         /\ Line("Error getting embedding", p) \in log') =>
            /\ pc'[p] = "insert"
            /\ doc'[p] = ZeroVector
            /\ attempt'[p] = attempt[p]

\* C28, as claimed: an item whose embedding call failed is inserted into the
\* store with the zero vector, without a retry, and no later run embeds it
\* again.
C28_Original ==
    /\ [][FailedEmbeddingGoesOn]_vars
    /\ [][\A p \in Paths :
             (orch = "loader" /\ pc[p] = "insert" /\ doc[p] = ZeroVector
              /\ pc'[p] # "insert") =>
                 store' = store (+) SetToBag({ZeroRow(p)})]_vars
    /\ [](\A p \in Paths :
             (orch = "loader" /\ ZeroRowsBefore(p) > 0) =>
                 ~HasLine("Processing file", p))

\* C28, amended: an item whose embedding call failed goes on to its insert
\* with the zero vector, without a retry.  The insert is made once: it adds
\* the row with the zero vector, or it fails, is logged, and leaves the item
\* without a row.  A row with the zero vector is never removed or replaced,
\* and a later run whose dedup query succeeded does not start the item, so
\* that run does not embed it again.
C28_ZeroVectorRecorded ==
    /\ [][FailedEmbeddingGoesOn]_vars
    /\ [][\A p \in Paths :
             (orch = "loader" /\ pc[p] = "insert" /\ doc[p] = ZeroVector
              /\ pc'[p] # "insert") =>
                 /\ pc'[p] = "done"
                 /\ attempt'[p] = attempt[p]
                 /\ IF Inserted(p)'
                    THEN store' = store (+) SetToBag({ZeroRow(p)})
                    ELSE /\ store' = store
                         /\ Line("Error inserting document", p) \in log']_vars
    /\ [][\A r \in BagToSet(store) :
             r.embedding.zero => CopiesIn(r, store') >= CopiesIn(r, store)]_vars
    /\ [](\A p \in Paths :
             (orch = "loader" /\ QueryOk /\ ZeroRowsBefore(p) > 0) =>
                 /\ pc[p] = "none"
                 /\ ~AnyLine(p))

\* C28 witness: the second run, whose query succeeded, has ended; the item that
\* got its zero vector row in the first run was not started, and the other
\* item was processed and inserted.
C28_Witness ==
    /\ orch = "loader"
    /\ run = 2
    /\ QueryOk
    /\ mainpc = "done"
    /\ \E p, q \in Range(json_files) :
          /\ p # q
          /\ ZeroRowsBefore(p) = 1
          /\ RowsNamed(Str(p)) = 1
          /\ pc[p] = "none"
          /\ Inserted(q)
====
